---- MODULE Spec2Model ----
(***************************************************************************)
(* mcpkit: `mcpkit create`, from the authentication phase to the generated *)
(* repository, with action discovery and the 1Password credential lookup.  *)
(*                                                                         *)
(* The repository holds two implementations of authenticateToWebsite: the  *)
(* one of services/create/index.ts (with the 1Password lookup and the      *)
(* autofill attempt) and the one of services/create/authentication (manual *)
(* login only).  The variable impl says which of the two a run executes.   *)
(*                                                                         *)
(* Strings whose characters the code inspects (page URLs, the line the     *)
(* user types) are sequences of one-character strings.                     *)
(***************************************************************************)
EXTENDS Integers, Sequences, FiniteSets, TLC

VARIABLES
    impl,         \* "monolith" (services/create/index.ts) or "modular" (authentication/index.ts)
    url,          \* the target URL given to authenticateToWebsite
    sessionId,    \* stagehand.browserbaseSessionId is set
    vault,        \* what the credential store holds for the domain
    pc,           \* the statement authenticateToWebsite is at
    outcome,      \* "running", "returned" or "raised"
    reason,       \* which return or throw statement ended the run
    pageUrl,      \* activePage.url()
    analysis,     \* the local variable analysis
    credentials,  \* the local variable credentials
    userInput,    \* the local variable userInput (NoInput until the user typed a line)
    trace,        \* the calls made so far, in order, each with how it ended
    lastInsp,     \* what the latest analyzeAuthenticationState call met and gave back
    log,          \* everything written to the console
    cpc,          \* the statement createMCPServer is at ("none" when it is not running)
    skipAuth,     \* options.skipAuth of createMCPServer
    agentResult,  \* what agent.execute gave discoverActions
    discovered,   \* how discoverActions ended: the catalog returned or the error thrown
    lookupIn,     \* the domain, the vault and the backend faults of a credential lookup
    lookupOut,    \* what lookupCredentialsIn1Password gave back
    ctx,          \* the saved browser contexts (services/session) and the calls made on them
    envFile,      \* the global env file and the calls of saveTokenToEnv and setupConfig
    sh,           \* the module state of getStagehandInstance and its calls in flight
    build         \* the build-verification loop of createMCPServer

\* the variables authenticateToWebsite and the Inspector leave alone
\* the variables of the session store, the env file, the Stagehand initializer and
\* the build loop
later == <<ctx, envFile, sh, build>>

others == <<cpc, skipAuth, agentResult, discovered, lookupIn, lookupOut, later>>

\* the value of a variable of later whose part of the program is not running
Idle == [pc |-> "none"]

vars == <<impl, url, sessionId, vault, pc, outcome, reason, pageUrl, analysis,
          credentials, userInput, trace, lastInsp, log, others>>

\* the values of the variables of a function that is not running
NoAgentResult == [kind |-> "none", message |-> <<>>, payload |-> <<>>, wrapping |-> "none"]
NotDiscovered == [ended |-> "no", cause |-> "none", quoted |-> <<>>, actions |-> <<>>]
NoLookup == [domain |-> <<>>, items |-> <<>>, fault |-> "none"]
NoLookupOut == [ended |-> "no", found |-> FALSE, username |-> "", password |-> ""]

-----------------------------------------------------------------------------
(* Characters and strings *)

Upper == <<"A", "B", "C", "D", "E", "F", "G", "H", "I", "J", "K", "L", "M",
           "N", "O", "P", "Q", "R", "S", "T", "U", "V", "W", "X", "Y", "Z">>
Lower == <<"a", "b", "c", "d", "e", "f", "g", "h", "i", "j", "k", "l", "m",
           "n", "o", "p", "q", "r", "s", "t", "u", "v", "w", "x", "y", "z">>

\* String.prototype.toLowerCase, one character
toLowerCaseChar(c) ==
    IF \E i \in 1..Len(Upper) : Upper[i] = c
    THEN Lower[CHOOSE i \in 1..Len(Upper) : Upper[i] = c]
    ELSE c

\* String.prototype.toLowerCase
toLowerCase(s) == [i \in 1..Len(s) |-> toLowerCaseChar(s[i])]

WhiteSpace == {" ", "\n", "\t", "\r"}

RECURSIVE trimStart(_)
trimStart(s) ==
    IF s # <<>> /\ Head(s) \in WhiteSpace THEN trimStart(Tail(s)) ELSE s

RECURSIVE trimEnd(_)
trimEnd(s) ==
    IF s # <<>> /\ s[Len(s)] \in WhiteSpace
    THEN trimEnd(SubSeq(s, 1, Len(s) - 1))
    ELSE s

\* String.prototype.trim
trim(s) == trimEnd(trimStart(s))

-----------------------------------------------------------------------------
(* The inputs of a run *)

UrlHome == <<"h", "t", "t", "p", "s", ":", "/", "/", "x", ".", "i", "o", "/", "h", "o", "m", "e">>
UrlLogin == <<"h", "t", "t", "p", "s", ":", "/", "/", "x", ".", "i", "o", "/", "L", "o", "g", "i", "n">>
UrlSignin == <<"h", "t", "t", "p", "s", ":", "/", "/", "x", ".", "i", "o", "/", "S", "I", "G", "N", "I", "N">>
UrlOauth == <<"h", "t", "t", "p", "s", ":", "/", "/", "x", ".", "i", "o", "/", "o", "a", "u", "t", "h", "2">>
UrlSignDashIn == <<"h", "t", "t", "p", "s", ":", "/", "/", "x", ".", "i", "o", "/", "s", "i", "g", "n", "-", "i", "n">>
UrlAccount == <<"h", "t", "t", "p", "s", ":", "/", "/", "x", ".", "i", "o", "/", "m", "y", "-", "A", "c", "c", "o", "u", "n", "t">>
UrlSignUnderscoreIn == <<"h", "t", "t", "p", "s", ":", "/", "/", "x", ".", "i", "o", "/", "s", "i", "g", "n", "_", "i", "n">>
UrlLogDashIn == <<"h", "t", "t", "p", "s", ":", "/", "/", "x", ".", "i", "o", "/", "l", "o", "g", "-", "i", "n", "?", "a", "=", "1">>

\* the URLs a page may be at when it is inspected
PageUrls == {UrlHome, UrlLogin, UrlSignin, UrlOauth, UrlSignDashIn, UrlAccount,
               UrlSignUnderscoreIn, UrlLogDashIn}

\* where the site may send the browser instead of the page asked for
RedirectUrls == {UrlLogin}

\* the URLs a run is started on
TargetUrls == {UrlHome, UrlLogin}

\* where the browser is once the user has worked in it
LoggedInUrls == {UrlHome}

InSkipUpper == <<"S", "K", "I", "P">>
InSkipPadded == <<" ", " ", "s", "k", "i", "p", "\n">>
InSkip == <<"s", "k", "i", "p">>
InEmpty == <<>>
InEnter == <<"\n">>
InSkipp == <<"s", "k", "i", "p", "p", "\n">>
InSpaced == <<"s", " ", "k", "i", "p", "\n">>
InYes == <<"y", "e", "s", "\n">>

\* the lines the user may type at the manual-login prompt
Inputs == {InSkipUpper, InSkipPadded, InSkip, InEmpty, InEnter, InSkipp, InSpaced, InYes}

NoInput == <<"<", "n", "o", "n", "e", ">">>

-----------------------------------------------------------------------------
(* AuthAnalysis and the Page State Inspector *)

\* an optional string that is absent
NoString == ""

\* AuthAnalysisSchema.  loginButton and summary are optional strings, canAutofill
\* an optional boolean the code only tests for truthiness (absent reads as FALSE).
AuthAnalysisSchema ==
    [requiresAuth : BOOLEAN,
     loginButton : {NoString, "Click the Sign In button"},
     canAutofill : BOOLEAN,
     hasSummary : BOOLEAN,
     summary : {NoString, "Sign in to continue"}]

\* what stagehand.extract can resolve to
ExtractValues == {a \in AuthAnalysisSchema : a.hasSummary <=> a.summary # NoString}

NoAnalysis ==
    [requiresAuth |-> FALSE, loginButton |-> NoString, canAutofill |-> FALSE,
     hasSummary |-> FALSE, summary |-> NoString]

\* what stagehand.extract can reject with: an Error (whose message may be empty) or
\* a value that is no Error
ExtractErrors ==
    {[isError |-> TRUE, message |-> "Request timed out"],
     [isError |-> TRUE, message |-> ""],
     [isError |-> FALSE, message |-> ""]}

NoError == [isError |-> FALSE, message |-> ""]

\* what the browser driver does during one inspection
InspectorEnvs ==
    [setActivePage : {"ok", "throw"},
     extractThrew : {FALSE},
     value : ExtractValues,
     error : {NoError},
     url : {"ok", "throw"}]
    \cup
    [setActivePage : {"ok", "throw"},
     extractThrew : {TRUE},
     value : {NoAnalysis},
     error : ExtractErrors,
     url : {"ok", "throw"}]

\* MatchAt without the i flag
MatchAtCaseSensitive(s, i, p) ==
    /\ i + Len(p) - 1 <= Len(s)
    /\ \A k \in 1..Len(p) : s[i + k - 1] = p[k]

\* whether pattern p matches string s at position i, ignoring case (the i flag)
MatchAt(s, i, p) ==
    /\ i + Len(p) - 1 <= Len(s)
    /\ \A k \in 1..Len(p) : toLowerCaseChar(s[i + k - 1]) = toLowerCaseChar(p[k])

\* the alternatives of /login|signin|auth|sign-in|account/i
HeuristicAlternatives ==
    {<<"l", "o", "g", "i", "n">>,
     <<"s", "i", "g", "n", "i", "n">>,
     <<"a", "u", "t", "h">>,
     <<"s", "i", "g", "n", "-", "i", "n">>,
     <<"a", "c", "c", "o", "u", "n", "t">>}

\* /login|signin|auth|sign-in|account/i.test(u)
HeuristicTest(u) ==
    \E i \in 1..Len(u) : \E p \in HeuristicAlternatives : MatchAt(u, i, p)

\* the summary of the heuristic result
HeuristicSummary(error) ==
    IF error.isError
    THEN "Heuristic result after extract error: " \o error.message
    ELSE "Heuristic result after extract error."

\* the catch block of analyzeAuthenticationState, once page.url() has returned u
HeuristicAnalysis(u, error) ==
    [requiresAuth |-> HeuristicTest(u), loginButton |-> NoString,
     canAutofill |-> FALSE, hasSummary |-> TRUE,
     summary |-> HeuristicSummary(error)]

\* analyzeAuthenticationState(stagehand, page), with the page at u and the
\* browser driver behaving as env: [threw, value].  setActivePage is called
\* before the try block, page.url() inside the catch block.
analyzeAuthenticationState(u, env) ==
    IF env.setActivePage = "throw"
    THEN [threw |-> TRUE, value |-> NoAnalysis]
    ELSE IF ~env.extractThrew
    THEN [threw |-> FALSE, value |-> env.value]
    ELSE IF env.url = "throw"
    THEN [threw |-> TRUE, value |-> NoAnalysis]
    ELSE [threw |-> FALSE, value |-> HeuristicAnalysis(u, env.error)]

\* what an inspection met and gave back, as the history variables keep it
InspRecord(u, env, r) ==
    [called |-> TRUE, url |-> u, setActivePage |-> env.setActivePage,
     extractThrew |-> env.extractThrew, error |-> env.error, urlRead |-> env.url,
     threw |-> r.threw, value |-> r.value]

NoInsp ==
    [called |-> FALSE, url |-> <<>>, setActivePage |-> "ok", extractThrew |-> FALSE,
     error |-> NoError, urlRead |-> "ok", threw |-> FALSE, value |-> NoAnalysis]

\* the behaviours of the browser driver a run of authenticateToWebsite meets at an
\* inspection: each way analyzeAuthenticationState can go, the extraction giving
\* each combination of requiresAuth, loginButton and canAutofill
FlowEnvs ==
    {e \in InspectorEnvs :
        /\ e.setActivePage = "throw" => (e.extractThrew /\ e.url = "ok")
        /\ e.extractThrew => e.error = [isError |-> TRUE, message |-> "Request timed out"]
        /\ (~e.extractThrew) => (e.url = "ok" /\ e.value.hasSummary)}

-----------------------------------------------------------------------------
(* Credentials and the console *)

NoCredentials == [found |-> FALSE, username |-> "", password |-> ""]
StoredCredentials == [found |-> TRUE, username |-> "alice@x.io", password |-> "hunter2"]

\* lookupCredentialsIn1Password(domain) against a store holding v, the backend
\* answering or failing: the value returned and the lines written to the console
lookupCredentialsIn1Password(v, backend) ==
    IF backend = "error"
    THEN [value |-> NoCredentials,
          log |-> {<<"Checking 1Password for credentials">>,
                   <<"Could not connect to 1Password:", "backend error">>}]
    ELSE IF v.found
    THEN [value |-> v,
          log |-> {<<"Checking 1Password for credentials">>,
                   <<"Items from 1Password:", "item overview">>,
                   <<"Found matching login item:", "item title">>,
                   <<"Found credentials in 1Password">>}]
    ELSE [value |-> NoCredentials,
          log |-> {<<"Checking 1Password for credentials">>,
                   <<"Items from 1Password:", "item overview">>,
                   <<"No credentials found in 1Password">>}]

\* console.log("Credentials from 1Password:", credentials)
LogCredentials(c) ==
    IF c.found
    THEN {<<"Credentials from 1Password:", c.username, c.password>>}
    ELSE {<<"Credentials from 1Password:", "null">>}

\* logAuthenticationAnalysis(analysis, domain)
logAuthenticationAnalysis(a) ==
    {<<"Login flow detected:", IF a.hasSummary THEN a.summary ELSE "Sign-in required for domain.">>}
    \cup (IF a.loginButton # NoString THEN {<<"Login action:", a.loginButton>>} ELSE {})

-----------------------------------------------------------------------------
(* The decisions of authenticateToWebsite *)

\* AfterFirstInspection without the early return
AfterFirstInspectionNoReturn(a, i) ==
    IF i = "monolith" THEN "lookup" ELSE "click"

\* if (!analysis.requiresAuth) return;  otherwise the next statement
AfterFirstInspection(a, i) ==
    IF ~a.requiresAuth THEN "return"
    ELSE IF i = "monolith" THEN "lookup" ELSE "click"

\* AfterClick with an early return when the latest analysis needs no sign-in
AfterClickEarlyReturn(a, c, i) ==
    IF ~a.requiresAuth THEN "return"
    ELSE IF i = "monolith" /\ c.found /\ a.canAutofill THEN "typeUsername" ELSE "debugUrl"

\* the statement after the login-button block: if (credentials && analysis.canAutofill)
\* in services/create/index.ts, the manual login in authentication/index.ts
AfterClick(a, c, i) ==
    IF i = "monolith" /\ c.found /\ a.canAutofill THEN "typeUsername" ELSE "debugUrl"

\* OnClickError without the try block: the error leaves the function
OnClickErrorRethrow(a, c, i) == "raise"

\* the catch block around the login click: log and go on
OnClickError(a, c, i) == AfterClick(a, c, i)

\* the catch block around the autofill attempt: log and fall back to manual login
OnAutofillError == "debugUrl"

\* AfterWaitForLoadState without the .catch
AfterWaitForLoadStateNoCatch(ok, nxt) == IF ok THEN nxt ELSE "raise"

\* activePage.waitForLoadState(...).catch(() => {}): go on to nxt either way
AfterWaitForLoadState(ok, nxt) == nxt

\* AfterAutofillInspection that tries the automatic login again
AfterAutofillInspectionRetry(a) == IF ~a.requiresAuth THEN "return" ELSE "typeUsername"

\* if (!analysis.requiresAuth) return;  else fall back to manual login
AfterAutofillInspection(a) == IF ~a.requiresAuth THEN "return" ELSE "debugUrl"

\* IsSkip without the trim
IsSkipNoTrim(input) == toLowerCase(input) = <<"s", "k", "i", "p">>

\* userInput.toLowerCase().trim() === "skip"
IsSkip(input) == trim(toLowerCase(input)) = <<"s", "k", "i", "p">>

\* the statement after waitForUserInput
AfterUserInput(input) == IF IsSkip(input) THEN "skipGoto" ELSE "verify"

\* AfterVerification without the check
AfterVerificationNoCheck(a) == "return"

\* AfterVerification with the check negated
AfterVerificationNegated(a) == IF ~a.requiresAuth THEN "raise" ELSE "return"

\* if (analysis.requiresAuth) throw ...; otherwise return
AfterVerification(a) == IF a.requiresAuth THEN "raise" ELSE "return"

-----------------------------------------------------------------------------
(* authenticateToWebsite, one action per awaited call *)

\* an entry of trace: the call, the statement making it, whether it completed, and
\* for an inspection the requiresAuth it reported
Call(name, ok) == [call |-> name, at |-> pc, ok |-> ok, requiresAuth |-> FALSE]

InspectCall(r) ==
    [call |-> "inspect", at |-> pc, ok |-> ~r.threw, requiresAuth |-> r.value.requiresAuth]

Finish(o, why) ==
    /\ pc' = "done"
    /\ outcome' = o
    /\ reason' = why

\* go to statement nxt, which may be the end of the function
Goto(nxt, why) ==
    IF nxt = "return" THEN Finish("returned", why)
    ELSE IF nxt = "raise" THEN Finish("raised", why)
    ELSE pc' = nxt /\ UNCHANGED <<outcome, reason>>

Init ==
    /\ impl \in {"monolith", "modular"}
    /\ url \in TargetUrls
    /\ sessionId \in BOOLEAN
    /\ vault \in {NoCredentials, StoredCredentials}
    /\ pc = "awaitActivePage"
    /\ outcome = "running"
    /\ reason = "none"
    /\ pageUrl = <<"a", "b", "o", "u", "t", ":", "b", "l", "a", "n", "k">>
    /\ analysis = NoAnalysis
    /\ credentials = NoCredentials
    /\ userInput = NoInput
    /\ trace = <<>>
    /\ lastInsp = NoInsp
    /\ log = {}
    /\ cpc = "none"
    /\ skipAuth = FALSE
    /\ agentResult = NoAgentResult
    /\ discovered = NotDiscovered
    /\ lookupIn = NoLookup
    /\ lookupOut = NoLookupOut
    /\ ctx = Idle
    /\ envFile = Idle
    /\ sh = Idle
    /\ build = Idle

\* activePage = await context.awaitActivePage(10_000), rethrown as "Unable to locate ..."
AwaitActivePage ==
    /\ pc = "awaitActivePage"
    /\ \E ok \in BOOLEAN :
        /\ trace' = Append(trace, Call("awaitActivePage", ok))
        /\ IF ok THEN Goto("goto", "none") ELSE Goto("raise", "noActivePage")
    /\ UNCHANGED <<others, impl, url, sessionId, vault, pageUrl, analysis, credentials,
                   userInput, lastInsp, log>>

\* await activePage.goto(url, ...), outside any try block
GotoUrl ==
    /\ pc = "goto"
    /\ \E ok \in BOOLEAN :
        /\ trace' = Append(trace, Call("goto", ok))
        /\ IF ok
           THEN /\ pageUrl' \in {url} \cup RedirectUrls
                /\ Goto("inspect", "none")
           ELSE /\ pageUrl' = pageUrl
                /\ Goto("raise", "navigationFailed")
    /\ UNCHANGED <<others, impl, url, sessionId, vault, analysis, credentials,
                   userInput, lastInsp, log>>

\* let analysis = await analyzeAuthenticationState(...); if (!analysis.requiresAuth) return;
\* logAuthenticationAnalysis(analysis, domain)
FirstInspection ==
    /\ pc = "inspect"
    /\ \E env \in FlowEnvs :
        LET r == analyzeAuthenticationState(pageUrl, env) IN
        /\ trace' = Append(trace, InspectCall(r))
        /\ lastInsp' = InspRecord(pageUrl, env, r)
        /\ IF r.threw
           THEN /\ Goto("raise", "inspectorRaised")
                /\ UNCHANGED <<analysis, log>>
           ELSE /\ analysis' = r.value
                /\ Goto(AfterFirstInspection(r.value, impl), "noAuthRequired")
                /\ log' = log \cup
                     (IF AfterFirstInspection(r.value, impl) = "return"
                      THEN {<<"No authentication required.">>}
                      ELSE logAuthenticationAnalysis(r.value))
    /\ UNCHANGED <<others, impl, url, sessionId, vault, pageUrl, credentials, userInput>>

\* const credentials = await lookupCredentialsIn1Password(domain);
\* console.log("Credentials from 1Password:", credentials)
LookupCredentials ==
    /\ pc = "lookup"
    /\ \E backend \in {"ok", "error"} :
        LET r == lookupCredentialsIn1Password(vault, backend) IN
        /\ trace' = Append(trace, Call("lookup", backend = "ok"))
        /\ credentials' = r.value
        /\ log' = log \cup r.log \cup LogCredentials(r.value)
    /\ Goto("click", "none")
    /\ UNCHANGED <<others, impl, url, sessionId, vault, pageUrl, analysis, userInput,
                   lastInsp>>

\* if (analysis.loginButton) { try { await stagehand.act(analysis.loginButton); ...
ClickLoginButton ==
    /\ pc = "click"
    /\ IF analysis.loginButton = NoString
       THEN /\ Goto(AfterClick(analysis, credentials, impl), "none")
            /\ UNCHANGED <<trace, pageUrl, log>>
       ELSE \E ok \in BOOLEAN :
            /\ trace' = Append(trace, Call("act:login", ok))
            /\ IF ok
               THEN /\ pageUrl' \in {pageUrl} \cup RedirectUrls
                    /\ log' = log \cup {<<"Clicking login button:", analysis.loginButton>>}
                    /\ Goto("clickIdle", "none")
               ELSE /\ pageUrl' = pageUrl
                    /\ log' = log \cup {<<"Clicking login button:", analysis.loginButton>>,
                                        <<"Failed to click login button:", "act error">>}
                    /\ Goto(OnClickError(analysis, credentials, impl), "clickFailed")
    /\ UNCHANGED <<others, impl, url, sessionId, vault, analysis, credentials, userInput,
                   lastInsp>>

\* await activePage.waitForLoadState("networkidle", 5_000).catch(() => {})
ClickWaitIdle ==
    /\ pc = "clickIdle"
    /\ \E ok \in BOOLEAN :
        /\ trace' = Append(trace, Call("waitForLoadState", ok))
        /\ Goto(AfterWaitForLoadState(ok, "clickInspect"), "idleWaitFailed")
    /\ UNCHANGED <<others, impl, url, sessionId, vault, pageUrl, analysis, credentials,
                   userInput, lastInsp, log>>

\* analysis = await analyzeAuthenticationState(...), inside the try block of the click
ClickInspection ==
    /\ pc = "clickInspect"
    /\ \E env \in FlowEnvs :
        LET r == analyzeAuthenticationState(pageUrl, env) IN
        /\ trace' = Append(trace, InspectCall(r))
        /\ lastInsp' = InspRecord(pageUrl, env, r)
        /\ IF r.threw
           THEN /\ analysis' = analysis
                /\ log' = log \cup {<<"Failed to click login button:", "inspector error">>}
                /\ Goto(OnClickError(analysis, credentials, impl), "clickFailed")
           ELSE /\ analysis' = r.value
                /\ log' = log
                /\ Goto(AfterClick(r.value, credentials, impl), "none")
    /\ UNCHANGED <<others, impl, url, sessionId, vault, pageUrl, credentials, userInput>>

\* one of the three act commands of the autofill attempt, inside its try block
AutofillAct(at, name, nxt) ==
    /\ pc = at
    /\ \E ok \in BOOLEAN :
        /\ trace' = Append(trace, Call(name, ok))
        /\ IF ok
           THEN /\ pageUrl' \in (IF nxt = "autofillIdle" THEN {pageUrl} \cup LoggedInUrls ELSE {pageUrl})
                /\ log' = log \cup {<<"Attempting automatic login with 1Password credentials...">>}
                /\ Goto(nxt, "none")
           ELSE /\ pageUrl' = pageUrl
                /\ log' = log \cup {<<"Attempting automatic login with 1Password credentials...">>,
                                    <<"Automatic login failed:", "act error">>}
                /\ Goto(OnAutofillError, "autofillFailed")
    /\ UNCHANGED <<others, impl, url, sessionId, vault, analysis, credentials, userInput,
                   lastInsp>>

\* await stagehand.act(`Type "${credentials.username}" into the username or email field`)
TypeUsername == AutofillAct("typeUsername", "act:username", "typePassword")

\* await stagehand.act(`Type "${credentials.password}" into the password field`)
TypePassword == AutofillAct("typePassword", "act:password", "submit")

\* await stagehand.act("Click the login or sign in button")
SubmitLogin == AutofillAct("submit", "act:submit", "autofillIdle")

\* await activePage.waitForLoadState("networkidle", 10_000).catch(() => {})
AutofillWaitIdle ==
    /\ pc = "autofillIdle"
    /\ \E ok \in BOOLEAN :
        /\ trace' = Append(trace, Call("waitForLoadState", ok))
        /\ Goto(AfterWaitForLoadState(ok, "autofillInspect"), "idleWaitFailed")
    /\ UNCHANGED <<others, impl, url, sessionId, vault, pageUrl, analysis, credentials,
                   userInput, lastInsp, log>>

\* analysis = await analyzeAuthenticationState(...); if (!analysis.requiresAuth) return;
\* inside the try block of the autofill attempt
AutofillInspection ==
    /\ pc = "autofillInspect"
    /\ \E env \in FlowEnvs :
        LET r == analyzeAuthenticationState(pageUrl, env) IN
        /\ trace' = Append(trace, InspectCall(r))
        /\ lastInsp' = InspRecord(pageUrl, env, r)
        /\ IF r.threw
           THEN /\ analysis' = analysis
                /\ log' = log \cup {<<"Automatic login failed:", "inspector error">>}
                /\ Goto(OnAutofillError, "autofillFailed")
           ELSE /\ analysis' = r.value
                /\ log' = log \cup
                     (IF AfterAutofillInspection(r.value) = "return"
                      THEN {<<"Automatic login successful!">>}
                      ELSE {<<"Automatic login may have failed, falling back to manual authentication">>})
                /\ Goto(AfterAutofillInspection(r.value), "autofillSucceeded")
    /\ UNCHANGED <<others, impl, url, sessionId, vault, pageUrl, credentials, userInput>>

\* getDebugUrl(stagehand): throws when the session has no id
getDebugUrl(sid) == IF sid THEN "ok" ELSE "throw"

\* console.log(`Debug URL: ${getDebugUrl(stagehand)}`)
ShowDebugUrl ==
    /\ pc = "debugUrl"
    /\ trace' = Append(trace, Call("getDebugUrl", getDebugUrl(sessionId) = "ok"))
    /\ IF getDebugUrl(sessionId) = "ok"
       THEN /\ log' = log \cup {<<"Opening browser session for authentication...">>,
                                <<"Debug URL:", "https://www.browserbase.com/sessions/id">>,
                                <<"Please log in to the website in the browser window that just opened.">>}
            /\ Goto("openDebugger", "none")
       ELSE /\ log' = log \cup {<<"Opening browser session for authentication...">>}
            /\ Goto("raise", "noSession")
    /\ UNCHANGED <<others, impl, url, sessionId, vault, pageUrl, analysis, credentials,
                   userInput, lastInsp>>

\* await openDebuggerUrl(stagehand.browserbaseSessionId!), outside any try block
OpenDebuggerUrl ==
    /\ pc = "openDebugger"
    /\ \E ok \in BOOLEAN :
        /\ trace' = Append(trace, Call("openDebuggerUrl", ok))
        /\ IF ok
           THEN /\ log' = log \cup {<<"Once you're logged in, press Enter to continue (or type 'skip' to skip authentication)...">>}
                /\ Goto("waitInput", "none")
           ELSE /\ log' = log
                /\ Goto("raise", "debuggerFailed")
    /\ UNCHANGED <<others, impl, url, sessionId, vault, pageUrl, analysis, credentials,
                   userInput, lastInsp>>

\* const userInput = await waitForUserInput(); meanwhile the user works in the browser
WaitForUserInput ==
    /\ pc = "waitInput"
    /\ \E input \in Inputs :
        /\ userInput' = input
        /\ Goto(AfterUserInput(input), "none")
        /\ log' = log \cup
             (IF AfterUserInput(input) = "skipGoto"
              THEN {<<"Skipping authentication, returning to original page...">>}
              ELSE {})
    /\ pageUrl' \in {pageUrl} \cup LoggedInUrls
    /\ trace' = Append(trace, Call("waitForUserInput", TRUE))
    /\ UNCHANGED <<others, impl, url, sessionId, vault, analysis, credentials,
                   lastInsp>>

\* await activePage.goto(url, ...); return;  in the skip branch, outside any try block
SkipGoto ==
    /\ pc = "skipGoto"
    /\ \E ok \in BOOLEAN :
        /\ trace' = Append(trace, Call("goto", ok))
        /\ IF ok
           THEN /\ pageUrl' \in {url} \cup RedirectUrls
                /\ Goto("return", "skipped")
           ELSE /\ pageUrl' = pageUrl
                /\ Goto("raise", "navigationFailed")
    /\ UNCHANGED <<others, impl, url, sessionId, vault, analysis, credentials,
                   userInput, lastInsp, log>>

\* analysis = await analyzeAuthenticationState(...);
\* if (analysis.requiresAuth) throw new Error("Authentication still required ...")
FinalVerification ==
    /\ pc = "verify"
    /\ \E env \in FlowEnvs :
        LET r == analyzeAuthenticationState(pageUrl, env) IN
        /\ trace' = Append(trace, InspectCall(r))
        /\ lastInsp' = InspRecord(pageUrl, env, r)
        /\ IF r.threw
           THEN /\ Goto("raise", "inspectorRaised")
                /\ UNCHANGED <<analysis, log>>
           ELSE /\ analysis' = r.value
                /\ Goto(AfterVerification(r.value),
                        IF AfterVerification(r.value) = "raise"
                        THEN "stillRequired" ELSE "confirmed")
                /\ log' = log \cup
                     (IF AfterVerification(r.value) = "return"
                      THEN {<<"Authentication confirmed.">>} ELSE {})
    /\ UNCHANGED <<others, impl, url, sessionId, vault, pageUrl, credentials, userInput>>

Next ==
    \/ AwaitActivePage
    \/ GotoUrl
    \/ FirstInspection
    \/ LookupCredentials
    \/ ClickLoginButton
    \/ ClickWaitIdle
    \/ ClickInspection
    \/ TypeUsername
    \/ TypePassword
    \/ SubmitLogin
    \/ AutofillWaitIdle
    \/ AutofillInspection
    \/ ShowDebugUrl
    \/ OpenDebuggerUrl
    \/ WaitForUserInput
    \/ SkipGoto
    \/ FinalVerification

Spec == Init /\ [][Next]_vars

-----------------------------------------------------------------------------
(* The Page State Inspector on its own: analyzeAuthenticationState applied to *)
(* every page URL under every behaviour of the browser driver                 *)

InitInspector ==
    /\ impl = "modular"
    /\ url = UrlHome
    /\ sessionId = TRUE
    /\ vault = NoCredentials
    /\ pc = "inspector"
    /\ outcome = "running"
    /\ reason = "none"
    /\ pageUrl \in PageUrls
    /\ analysis = NoAnalysis
    /\ credentials = NoCredentials
    /\ userInput = NoInput
    /\ trace = <<>>
    /\ lastInsp = NoInsp
    /\ log = {}
    /\ cpc = "none"
    /\ skipAuth = FALSE
    /\ agentResult = NoAgentResult
    /\ discovered = NotDiscovered
    /\ lookupIn = NoLookup
    /\ lookupOut = NoLookupOut
    /\ ctx = Idle
    /\ envFile = Idle
    /\ sh = Idle
    /\ build = Idle

Inspect ==
    /\ pc = "inspector"
    /\ \E env \in InspectorEnvs :
        lastInsp' = InspRecord(pageUrl, env, analyzeAuthenticationState(pageUrl, env))
    /\ pc' = "inspected"
    /\ UNCHANGED <<others, impl, url, sessionId, vault, outcome, reason, pageUrl, analysis,
                   credentials, userInput, trace, log>>

NextInspector == Inspect

SpecInspector == InitInspector /\ [][NextInspector]_vars

-----------------------------------------------------------------------------
(* What the claims speak of *)

\* the inputs that are skip tokens: "skip" in any case, surrounded by white space
SkipTokens == {InSkipUpper, InSkipPadded, InSkip}

\* the words of the heuristic
AuthWords ==
    {<<"l", "o", "g", "i", "n">>, <<"s", "i", "g", "n", "i", "n">>, <<"a", "u", "t", "h">>,
     <<"s", "i", "g", "n", "-", "i", "n">>, <<"a", "c", "c", "o", "u", "n", "t">>}

\* string s holds string w
Contains(s, w) ==
    \E i \in 0..(Len(s) - Len(w)) : SubSeq(s, i + 1, i + Len(w)) = w

ContainsAuthWord(u) == \E w \in AuthWords : Contains(toLowerCase(u), w)

LastCall == trace[Len(trace)]

\* the positions in trace of the inspections that returned an analysis
Produced == {i \in 1..Len(trace) : trace[i].call = "inspect" /\ trace[i].ok}

\* the position in trace of the line of input (0 before it)
InputAt ==
    IF \E i \in 1..Len(trace) : trace[i].call = "waitForUserInput"
    THEN CHOOSE i \in 1..Len(trace) : trace[i].call = "waitForUserInput"
    ELSE 0

\* the first inspection returned an analysis with requiresAuth = false
FirstInspectionNoAuth ==
    \E i \in Produced : trace[i].at = "inspect" /\ ~trace[i].requiresAuth

\* the re-inspection after the login click returned an analysis with requiresAuth = false
ClickInspectionNoAuth ==
    \E i \in Produced : trace[i].at = "clickInspect" /\ ~trace[i].requiresAuth

\* the act command for the login button threw
ClickThrew ==
    \E i \in 1..Len(trace) : trace[i].call = "act:login" /\ ~trace[i].ok

\* the statements whose failures sit inside a try block or a .catch
GuardedStatements ==
    {"lookup", "click", "clickIdle", "clickInspect", "typeUsername", "typePassword",
     "submit", "autofillIdle", "autofillInspect"}

-----------------------------------------------------------------------------
(* C1 *)

\* C1: a run that returns normally without a skip token has requiresAuth = false in
\* the latest analysis the Inspector produced, whatever the other fields of that or
\* of any earlier analysis were.
C1_SuccessOnlyWhenNoAuth ==
    (outcome = "returned" /\ userInput \notin SkipTokens) =>
        /\ Produced # {}
        /\ \A i \in Produced :
              (\A j \in Produced : j <= i) => ~trace[i].requiresAuth
        /\ ~analysis.requiresAuth

\* a run confirmed after manual login by an analysis that still names a login button
\* and says autofill is possible, after an earlier analysis that asked for sign-in
C1_Witness ==
    /\ outcome = "returned"
    /\ reason = "confirmed"
    /\ userInput \notin SkipTokens
    /\ Cardinality(Produced) >= 2
    /\ analysis.loginButton # NoString
    /\ analysis.canAutofill

-----------------------------------------------------------------------------
(* C2 *)

\* C2: when the extraction throws (the page selected and its URL read), the call
\* returns an analysis whose requiresAuth says whether the lower-cased URL holds one of
\* login, signin, auth, sign-in, account, and whose summary is a non-empty string.
C2_HeuristicFallback ==
    (/\ lastInsp.called
     /\ lastInsp.setActivePage = "ok"
     /\ lastInsp.extractThrew
     /\ lastInsp.urlRead = "ok") =>
        /\ ~lastInsp.threw
        /\ lastInsp.value.requiresAuth = ContainsAuthWord(lastInsp.url)
        /\ lastInsp.value.hasSummary
        /\ Len(lastInsp.value.summary) > 0

\* the heuristic answering true for a URL that holds "Account" in mixed case, after a
\* thrown value that is no Error
C2_Witness ==
    /\ lastInsp.called
    /\ lastInsp.extractThrew
    /\ ~lastInsp.error.isError
    /\ ~lastInsp.threw
    /\ lastInsp.url = UrlAccount
    /\ lastInsp.value.requiresAuth

-----------------------------------------------------------------------------
(* C3 *)

\* C3: analyzeAuthenticationState never raises, whichever of its steps throws.
C3_InspectorNeverRaises == lastInsp.called => ~lastInsp.threw

-----------------------------------------------------------------------------
(* C4 *)

-----------------------------------------------------------------------------
(* C5 *)

\* C5: after an input that is no skip token the Inspector is called exactly once more
\* and nothing else is; the run raises "Authentication still required" when that
\* inspection reports requiresAuth = true and returns when it reports false.
C5_NonSkipReverifies ==
    (userInput # NoInput /\ userInput \notin SkipTokens) =>
        /\ pc \in {"verify", "done"}
        /\ pc = "verify" => Len(trace) = InputAt
        /\ pc = "done" =>
              /\ Len(trace) = InputAt + 1
              /\ LastCall.call = "inspect"
              /\ (LastCall.ok /\ LastCall.requiresAuth) =>
                    (outcome = "raised" /\ reason = "stillRequired")
              /\ (LastCall.ok /\ ~LastCall.requiresAuth) => outcome = "returned"

\* the empty line typed, the final inspection still asking for sign-in
C5_Witness ==
    /\ userInput = InEmpty
    /\ outcome = "raised"
    /\ reason = "stillRequired"

-----------------------------------------------------------------------------
(* C6 *)

\* C6 as stated: when the re-inspection after the login click reports requiresAuth =
\* false, the run ends there, successfully.
C6_ReInspectionEndsRun ==
    ClickInspectionNoAuth =>
        /\ pc = "done"
        /\ outcome = "returned"
        /\ LastCall.at = "clickInspect"

\* C6 as amended: when the re-inspection after the login click reports requiresAuth =
\* false, the run does not end there: it goes on to the autofill attempt or to the
\* manual login, and returns only through a later inspection that reports false or
\* through a skip token.
C6_ReInspectionGoesOn ==
    ClickInspectionNoAuth =>
        /\ LastCall.at = "clickInspect" =>
              (outcome = "running" /\ pc \in {"typeUsername", "debugUrl"})
        /\ outcome = "returned" =>
              /\ reason \in {"autofillSucceeded", "confirmed", "skipped"}
              /\ LastCall.at \in {"autofillInspect", "verify", "skipGoto"}

\* the run waiting for the user's input although the re-inspection asked for no sign-in
C6_Witness ==
    /\ ClickInspectionNoAuth
    /\ pc = "waitInput"
    /\ LastCall.call = "openDebuggerUrl"

-----------------------------------------------------------------------------
(* C7 *)

\* C7: when the first inspection reports requiresAuth = false the run has returned and
\* that inspection is its last call: no credential lookup, no act command, no
\* navigation, no inspection, no debugger URL and no wait for input follows.
C7_NoAuthReturnsAtOnce ==
    FirstInspectionNoAuth =>
        /\ pc = "done"
        /\ outcome = "returned"
        /\ reason = "noAuthRequired"
        /\ Len(trace) = 3
        /\ LastCall.call = "inspect"
        /\ credentials = NoCredentials
        /\ userInput = NoInput

\* such a run of services/create/index.ts with credentials in the store
C7_Witness ==
    /\ FirstInspectionNoAuth
    /\ impl = "monolith"
    /\ vault.found
    /\ outcome = "returned"

-----------------------------------------------------------------------------
(* C8 *)

\* C8: when the act command for the login button throws, the run is not ended by it:
\* the next statement is the autofill attempt or the manual login, and no run ends
\* with the click's error.
C8_FailedClickGoesOn ==
    ClickThrew =>
        /\ reason # "clickFailed"
        /\ LastCall.call = "act:login" =>
              (outcome = "running" /\ pc \in {"typeUsername", "debugUrl"})

\* a run confirmed after manual login although the click had failed
C8_Witness ==
    /\ ClickThrew
    /\ outcome = "returned"
    /\ reason = "confirmed"

\* a run skipped by the user after the click had failed
C8_WitnessSkip ==
    /\ ClickThrew
    /\ outcome = "returned"
    /\ reason = "skipped"

\* a run ended by the final verification after the click had failed
C8_WitnessStillRequired ==
    /\ ClickThrew
    /\ outcome = "raised"
    /\ reason = "stillRequired"

-----------------------------------------------------------------------------
(* C9 *)

\* C9 as stated: a run raises only for want of an active page, for want of a session
\* identifier, or because the final verification still reports requiresAuth = true.
C9_RaisesOnlyInListedCases ==
    outcome = "raised" => reason \in {"noActivePage", "noSession", "stillRequired"}

\* C9 as amended: a run raises only when no active page is obtained, a navigation
\* (to the URL, or back to it after a skip) fails, the Inspector itself raises at the
\* first inspection or at the final verification, no session identifier exists,
\* opening the debugger URL fails, or the final verification still reports
\* requiresAuth = true; the failure of a credential lookup, of the login click, of an
\* autofill command, of a network-idle wait or of an inspection inside the click or
\* autofill block never ends the run.
C9_RaisesOnlyOutsideGuards ==
    /\ outcome = "raised" =>
          /\ LastCall.at \notin GuardedStatements
          /\ \/ reason = "noActivePage" /\ LastCall.call = "awaitActivePage" /\ ~LastCall.ok
             \/ reason = "navigationFailed" /\ LastCall.call = "goto" /\ ~LastCall.ok
             \/ reason = "inspectorRaised" /\ LastCall.call = "inspect" /\ ~LastCall.ok
             \/ reason = "noSession" /\ LastCall.call = "getDebugUrl" /\ ~sessionId
             \/ reason = "debuggerFailed" /\ LastCall.call = "openDebuggerUrl" /\ ~LastCall.ok
             \/ /\ reason = "stillRequired"
                /\ LastCall.at = "verify"
                /\ LastCall.ok
                /\ LastCall.requiresAuth
    /\ (trace # <<>> /\ ~LastCall.ok /\ LastCall.at \in GuardedStatements) =>
          (outcome = "running" /\ pc # "done")

\* a run that returned although a lookup, a network-idle wait and the re-inspection
\* inside the click block had failed on its way
C9_Witness ==
    /\ outcome = "returned"
    /\ \E i \in 1..Len(trace) : trace[i].call = "lookup" /\ ~trace[i].ok
    /\ \E i \in 1..Len(trace) : trace[i].call = "waitForLoadState" /\ ~trace[i].ok
    /\ \E i \in 1..Len(trace) : trace[i].at = "clickInspect" /\ ~trace[i].ok

-----------------------------------------------------------------------------
(* C10 *)

\* C10: the password retrieved from the credential store appears in no line written
\* to the console.
C10_PasswordNeverLogged ==
    \A line \in log : \A i \in 1..Len(line) : line[i] # StoredCredentials.password

-----------------------------------------------------------------------------
(* What authenticateToWebsite hands back to its caller *)

\* the function is declared Promise<void>: `return;` after the skip, `return;` after an
\* inspection without requiresAuth and the end of the body all resolve with undefined
ReturnValue(why) == "undefined"

\* what `await authenticateToWebsite(...)` gives createMCPServer: the value the promise
\* resolved with, or the error it rejected with
Settled ==
    IF outcome = "returned" THEN [how |-> "resolved", value |-> ReturnValue(reason)]
    ELSE IF outcome = "raised" THEN [how |-> "rejected", value |-> reason]
    ELSE [how |-> "pending", value |-> "none"]

\* C11: a run that ended through the skip token does not hand createMCPServer the
\* same result as a run that ended with requiresAuth == false
C11_SkipDistinguishable ==
    (pc = "done" /\ reason = "skipped")
        => \A why \in {"confirmed", "noAuthRequired", "autofillSucceeded"} :
               Settled # [how |-> "resolved", value |-> ReturnValue(why)]

\* C12: once the first inspection reported requiresAuth == true no act command types
\* a username or a password, and the run returns only after a line of input
C12_NoAutomaticLogin ==
    (\E i \in Produced : trace[i].at = "inspect" /\ trace[i].requiresAuth)
        => /\ \A i \in 1..Len(trace) : trace[i].call \notin {"act:username", "act:password"}
           /\ outcome = "returned"
                  => \E i \in 1..Len(trace) : trace[i].call = "waitForUserInput" /\ trace[i].ok

-----------------------------------------------------------------------------
(* discoverActions: from the agent's message to the text handed to JSON.parse *)

startsWith(s, p) == Len(s) >= Len(p) /\ SubSeq(s, 1, Len(p)) = p

endsWith(s, p) == Len(s) >= Len(p) /\ SubSeq(s, Len(s) - Len(p) + 1, Len(s)) = p

\* the character U+0060, which a TLA+ string cannot hold
Backtick == "U+0060"

Fence == <<Backtick, Backtick, Backtick>>

FenceJson == Fence \o <<"j", "s", "o", "n">>

\* .replace(/^```json\s*/i, "")
stripFenceJson(s) ==
    IF Len(s) >= Len(FenceJson) /\ toLowerCase(SubSeq(s, 1, Len(FenceJson))) = FenceJson
    THEN trimStart(SubSeq(s, Len(FenceJson) + 1, Len(s)))
    ELSE s

\* .replace(/^```\s*/, "")
stripFenceOpen(s) ==
    IF startsWith(s, Fence) THEN trimStart(SubSeq(s, Len(Fence) + 1, Len(s))) ELSE s

\* .replace(/\s*```$/, "")
stripFenceClose(s) ==
    IF endsWith(s, Fence) THEN trimEnd(SubSeq(s, 1, Len(s) - Len(Fence))) ELSE s

\* responseMessage.trim(), the three replacements, .trim()
stripFences(message) ==
    trim(stripFenceClose(stripFenceOpen(stripFenceJson(trim(message)))))

IndexesOf(s, c) == {i \in 1..Len(s) : s[i] = c}

Least(S) == CHOOSE i \in S : \A j \in S : i <= j

Greatest(S) == CHOOSE i \in S : \A j \in S : j <= i

\* jsonString.match(/\{[\s\S]*\}/): from the first "{" to the last "}" after it
jsonMatchFirstBrace(s) ==
    LET open == IndexesOf(s, "{")
        close == IndexesOf(s, "}")
    IN  IF open # {} /\ close # {} /\ Least(close) > Least(open)
        THEN [found |-> TRUE, text |-> SubSeq(s, Least(open), Least(close))]
        ELSE [found |-> FALSE, text |-> <<>>]

jsonMatch(s) ==
    LET open == IndexesOf(s, "{")
        close == IndexesOf(s, "}")
    IN  IF open # {} /\ close # {} /\ Greatest(close) > Least(open)
        THEN [found |-> TRUE, text |-> SubSeq(s, Least(open), Greatest(close))]
        ELSE [found |-> FALSE, text |-> <<>>]

\* the number of characters of the response quoted in the non-JSON error
ExcerptLength == 100

\* String.prototype.substring(from, to) with 0 <= from <= to
substring(s, from, to) ==
    SubSeq(s, from + 1, IF to < Len(s) THEN to ELSE Len(s))

\* jsonString without the search for an object inside the text
jsonStringNoExtract(i, message) ==
    [threw |-> FALSE, text |-> stripFences(message), quoted |-> <<>>]

\* The text handed to JSON.parse, or the error thrown before it.  Only
\* discovery/index.ts looks for an object inside a text that does not start with "{".
jsonString(i, message) ==
    LET stripped == stripFences(message)
    IN  IF i = "modular" /\ ~startsWith(stripped, <<"{">>)
        THEN IF jsonMatch(stripped).found
             THEN [threw |-> FALSE, text |-> jsonMatch(stripped).text, quoted |-> <<>>]
             ELSE [threw |-> TRUE, text |-> <<>>,
                   quoted |-> substring(stripped, 0, ExcerptLength)]
        ELSE [threw |-> FALSE, text |-> stripped, quoted |-> <<>>]

-----------------------------------------------------------------------------
(* JSON.parse on a sequence of characters.  A JSON value is a record: t is its  *)
(* type, s the characters of a string, number or literal, kids the elements of *)
(* an array or the members of an object (a member is a key with one value).    *)
(* Of the JSON grammar the numbers are the unsigned integers and the strings   *)
(* have no escape sequences.                                                   *)

JsonValue(t, s, kids) == [t |-> t, s |-> s, kids |-> kids]

JsonNull == JsonValue("null", <<>>, <<>>)

ParseFail == [ok |-> FALSE, v |-> JsonNull, next |-> 0]

Parsed(v, next) == [ok |-> TRUE, v |-> v, next |-> next]

Digits == {"0", "1", "2", "3", "4", "5", "6", "7", "8", "9"}

Quote == "\""

RECURSIVE skipWs(_, _)
skipWs(s, i) ==
    IF i <= Len(s) /\ s[i] \in WhiteSpace THEN skipWs(s, i + 1) ELSE i

\* the index of the first character at or after i that is not a digit
RECURSIVE skipDigits(_, _)
skipDigits(s, i) ==
    IF i <= Len(s) /\ s[i] \in Digits THEN skipDigits(s, i + 1) ELSE i

\* the index of the closing quote of the string whose characters start at i (0: none)
RECURSIVE closingQuote(_, _)
closingQuote(s, i) ==
    IF i > Len(s) \/ s[i] \in {"\\", "\n"} THEN 0
    ELSE IF s[i] = Quote THEN i
    ELSE closingQuote(s, i + 1)

parseString(s, i) ==
    LET j == closingQuote(s, i + 1)
    IN  IF j = 0 THEN ParseFail
        ELSE Parsed(JsonValue("string", SubSeq(s, i + 1, j - 1), <<>>), j + 1)

parseLiteral(s, i) ==
    LET at(word) == SubSeq(s, i, i + Len(word) - 1) = word
    IN  IF at(<<"t", "r", "u", "e">>)
        THEN Parsed(JsonValue("boolean", <<"t", "r", "u", "e">>, <<>>), i + 4)
        ELSE IF at(<<"f", "a", "l", "s", "e">>)
        THEN Parsed(JsonValue("boolean", <<"f", "a", "l", "s", "e">>, <<>>), i + 5)
        ELSE IF at(<<"n", "u", "l", "l">>)
        THEN Parsed(JsonNull, i + 4)
        ELSE ParseFail

\* obj[key] = v: a key met again keeps its place and takes the new value
SetMember(members, key, v) ==
    IF \E k \in 1..Len(members) : members[k].s = key
    THEN [k \in 1..Len(members) |->
            IF members[k].s = key THEN JsonValue("member", key, <<v>>) ELSE members[k]]
    ELSE Append(members, JsonValue("member", key, <<v>>))

RECURSIVE parseValue(_, _)
RECURSIVE parseElements(_, _, _)
RECURSIVE parseMembers(_, _, _)

\* the elements of an array from index i on, acc being those already read
parseElements(s, i, acc) ==
    LET e == parseValue(s, i)
        j == skipWs(s, e.next)
    IN  IF ~e.ok \/ j > Len(s) THEN ParseFail
        ELSE IF s[j] = "," THEN parseElements(s, j + 1, Append(acc, e.v))
        ELSE IF s[j] = "]" THEN Parsed(JsonValue("array", <<>>, Append(acc, e.v)), j + 1)
        ELSE ParseFail

\* the members of an object from index i on, acc being those already read
parseMembers(s, i, acc) ==
    LET j == skipWs(s, i)
        key == IF j <= Len(s) /\ s[j] = Quote THEN parseString(s, j) ELSE ParseFail
        c == skipWs(s, key.next)
        e == IF key.ok /\ c <= Len(s) /\ s[c] = ":" THEN parseValue(s, c + 1) ELSE ParseFail
        n == skipWs(s, e.next)
    IN  IF ~e.ok \/ n > Len(s) THEN ParseFail
        ELSE IF s[n] = "," THEN parseMembers(s, n + 1, SetMember(acc, key.v.s, e.v))
        ELSE IF s[n] = "}"
        THEN Parsed(JsonValue("object", <<>>, SetMember(acc, key.v.s, e.v)), n + 1)
        ELSE ParseFail

parseValue(s, i) ==
    LET j == skipWs(s, i)
        k == skipWs(s, j + 1)
    IN  IF j > Len(s) THEN ParseFail
        ELSE IF s[j] = "{"
        THEN IF k <= Len(s) /\ s[k] = "}"
             THEN Parsed(JsonValue("object", <<>>, <<>>), k + 1)
             ELSE parseMembers(s, j + 1, <<>>)
        ELSE IF s[j] = "["
        THEN IF k <= Len(s) /\ s[k] = "]"
             THEN Parsed(JsonValue("array", <<>>, <<>>), k + 1)
             ELSE parseElements(s, j + 1, <<>>)
        ELSE IF s[j] = Quote THEN parseString(s, j)
        ELSE IF s[j] \in Digits
        THEN Parsed(JsonValue("number", SubSeq(s, j, skipDigits(s, j) - 1), <<>>),
                    skipDigits(s, j))
        ELSE parseLiteral(s, j)

\* JSON.parse(text): the value, or a SyntaxError
JSONparse(text) ==
    LET r == parseValue(text, 1)
    IN  IF r.ok /\ skipWs(text, r.next) > Len(text)
        THEN [threw |-> FALSE, value |-> r.v]
        ELSE [threw |-> TRUE, value |-> JsonNull]

-----------------------------------------------------------------------------
(* DiscoveredActionsResponseSchema.parse: the zod schemas of the action catalog *)

KeyActions == <<"a", "c", "t", "i", "o", "n", "s">>

KeyName == <<"n", "a", "m", "e">>

KeyDescription == <<"d", "e", "s", "c", "r", "i", "p", "t", "i", "o", "n">>

KeySteps == <<"s", "t", "e", "p", "s">>

KeyParameters == <<"p", "a", "r", "a", "m", "e", "t", "e", "r", "s">>

KeyType == <<"t", "y", "p", "e">>

KeyRequired == <<"r", "e", "q", "u", "i", "r", "e", "d">>

KeyExtractionSchema ==
    <<"e", "x", "t", "r", "a", "c", "t", "i", "o", "n", "S", "c", "h", "e", "m", "a">>

\* z.enum(["string", "number", "boolean"])
ParameterTypes ==
    {<<"s", "t", "r", "i", "n", "g">>, <<"n", "u", "m", "b", "e", "r">>,
     <<"b", "o", "o", "l", "e", "a", "n">>}

JsonUndefined == JsonValue("undefined", <<>>, <<>>)

\* v[key], undefined when v has no such member
Get(v, key) ==
    IF v.t = "object" /\ \E k \in 1..Len(v.kids) : v.kids[k].s = key
    THEN v.kids[CHOOSE k \in 1..Len(v.kids) : v.kids[k].s = key].kids[1]
    ELSE JsonUndefined

IsString(v) == v.t = "string"

\* z.array(z.string())
IsStringArray(v) == v.t = "array" /\ \A k \in 1..Len(v.kids) : IsString(v.kids[k])

\* z.record(z.string())
IsStringRecord(v) ==
    v.t = "object" /\ \A k \in 1..Len(v.kids) : IsString(v.kids[k].kids[1])

\* the object schema of one element of parameters
ParameterSchema(v) ==
    /\ v.t = "object"
    /\ IsString(Get(v, KeyName))
    /\ IsString(Get(v, KeyType)) /\ Get(v, KeyType).s \in ParameterTypes
    /\ IsString(Get(v, KeyDescription))
    /\ Get(v, KeyRequired).t \in {"undefined", "boolean"}

\* DiscoveredActionSchema with name and parameters left unchecked
DiscoveredActionSchemaNameOptional(v) ==
    /\ v.t = "object"
    /\ IsString(Get(v, KeyDescription))
    /\ IsStringArray(Get(v, KeySteps))

DiscoveredActionSchema(v) ==
    /\ v.t = "object"
    /\ IsString(Get(v, KeyName))
    /\ IsString(Get(v, KeyDescription))
    /\ IsStringArray(Get(v, KeySteps))
    /\ \/ Get(v, KeyParameters).t = "undefined"
       \/ /\ Get(v, KeyParameters).t = "array"
          /\ \A k \in 1..Len(Get(v, KeyParameters).kids) :
                 ParameterSchema(Get(v, KeyParameters).kids[k])
    /\ \/ Get(v, KeyExtractionSchema).t = "undefined"
       \/ IsStringRecord(Get(v, KeyExtractionSchema))

DiscoveredActionsResponseSchema(v) ==
    /\ v.t = "object"
    /\ Get(v, KeyActions).t = "array"
    /\ \A k \in 1..Len(Get(v, KeyActions).kids) :
           DiscoveredActionSchema(Get(v, KeyActions).kids[k])

\* the members of v the schema names, in the schema's order (zod drops the others)
RECURSIVE Shaped(_, _)
Shaped(v, keys) ==
    IF keys = <<>> THEN <<>>
    ELSE (IF Get(v, Head(keys)).t = "undefined" THEN <<>>
          ELSE <<JsonValue("member", Head(keys), <<Get(v, Head(keys))>>)>>)
         \o Shaped(v, Tail(keys))

ShapedParameter(v) ==
    JsonValue("object", <<>>, Shaped(v, <<KeyName, KeyType, KeyDescription, KeyRequired>>))

\* the value zod returns for an action that satisfies DiscoveredActionSchema
ShapedAction(v) ==
    LET params == Get(v, KeyParameters)
        shapedParams == JsonValue("array", <<>>,
                            [k \in 1..Len(params.kids) |-> ShapedParameter(params.kids[k])])
        w == IF params.t = "undefined" THEN v
             ELSE [v EXCEPT !.kids = SetMember(v.kids, KeyParameters, shapedParams)]
    IN  JsonValue("object", <<>>,
            Shaped(w, <<KeyName, KeyDescription, KeySteps, KeyParameters,
                        KeyExtractionSchema>>))

\* validated.actions
validatedActions(v) ==
    [k \in 1..Len(Get(v, KeyActions).kids) |-> ShapedAction(Get(v, KeyActions).kids[k])]

-----------------------------------------------------------------------------
(* discoverActions *)

\* what agent.execute can give: it throws, or resolves with null, with an object
\* without message, or with an object whose message is a string
AgentResult(kind, message) ==
    [kind |-> kind, message |-> message, payload |-> <<>>, wrapping |-> "none"]

\* how discoverActions ends.  An error is told by the statement that threw it (cause)
\* and by the characters of the response its message quotes; every error leaves through
\* the catch block, which puts "Failed to discover actions: " before the message.
Returned(actions) ==
    [ended |-> "returned", cause |-> "none", quoted |-> <<>>, actions |-> actions]

Threw(cause, quoted) ==
    [ended |-> "threw", cause |-> cause, quoted |-> quoted, actions |-> <<>>]

\* The wording of the SyntaxError of JSON.parse is the engine's: it quotes the text
\* ("whole") or nothing of it ("none").
SyntaxErrorQuotes == {"none", "whole"}

discoverActions(i, result, engine) ==
    IF result.kind = "threw" THEN Threw("agent", <<>>)
    ELSE IF result.kind = "null" THEN Threw("invalidResult", <<>>)
    ELSE IF result.kind = "noMessage" \/ result.message = <<>> THEN Threw("noMessage", <<>>)
    ELSE LET text == jsonString(i, result.message)
             parsed == JSONparse(text.text)
         IN  IF text.threw THEN Threw("nonJson", text.quoted)
             ELSE IF parsed.threw
             THEN Threw("syntax", IF engine = "whole" THEN text.text ELSE <<>>)
             ELSE IF ~DiscoveredActionsResponseSchema(parsed.value) THEN Threw("schema", <<>>)
             ELSE Returned(validatedActions(parsed.value))

-----------------------------------------------------------------------------
(* The agent messages discoverActions is applied to *)

\* a catalog of two actions, the first with braces inside a step
CatalogTwo ==
    <<"{", "\"", "a", "c", "t", "i", "o", "n", "s", "\"", ":", "[", "{", "\"", "n", "a",
      "m", "e", "\"", ":", "\"", "a", "\"", ",", "\"", "d", "e", "s", "c", "r", "i", "p",
      "t", "i", "o", "n", "\"", ":", "\"", "d", "\"", ",", "\"", "s", "t", "e", "p", "s",
      "\"", ":", "[", "\"", "{", "q", "}", "\"", "]", "}", ",", "{", "\"", "n", "a", "m",
      "e", "\"", ":", "\"", "b", "\"", ",", "\"", "d", "e", "s", "c", "r", "i", "p", "t",
      "i", "o", "n", "\"", ":", "\"", "e", "\"", ",", "\"", "s", "t", "e", "p", "s",
      "\"", ":", "[", "]", ",", "\"", "p", "a", "r", "a", "m", "e", "t", "e", "r", "s",
      "\"", ":", "[", "{", "\"", "n", "a", "m", "e", "\"", ":", "\"", "q", "\"", ",",
      "\"", "t", "y", "p", "e", "\"", ":", "\"", "n", "u", "m", "b", "e", "r", "\"", ",",
      "\"", "d", "e", "s", "c", "r", "i", "p", "t", "i", "o", "n", "\"", ":", "\"", "p",
      "\"", "}", "]", "}", "]", "}">>

\* a catalog without actions
CatalogEmpty ==
    <<"{", "\"", "a", "c", "t", "i", "o", "n", "s", "\"", ":", "[", "]", "}">>

\* an action with a key the schema does not name
CatalogExtraKey ==
    <<"{", "\"", "a", "c", "t", "i", "o", "n", "s", "\"", ":", "[", "{", "\"", "n", "a",
      "m", "e", "\"", ":", "\"", "a", "\"", ",", "\"", "x", "\"", ":", "1", ",", "\"",
      "s", "t", "e", "p", "s", "\"", ":", "[", "\"", "s", "\"", "]", ",", "\"", "d", "e",
      "s", "c", "r", "i", "p", "t", "i", "o", "n", "\"", ":", "\"", "d", "\"", "}", "]",
      "}">>

\* the second action lacks name
CatalogNoName ==
    <<"{", "\"", "a", "c", "t", "i", "o", "n", "s", "\"", ":", "[", "{", "\"", "n", "a",
      "m", "e", "\"", ":", "\"", "a", "\"", ",", "\"", "d", "e", "s", "c", "r", "i", "p",
      "t", "i", "o", "n", "\"", ":", "\"", "d", "\"", ",", "\"", "s", "t", "e", "p", "s",
      "\"", ":", "[", "\"", "{", "q", "}", "\"", "]", "}", ",", "{", "\"", "d", "e", "s",
      "c", "r", "i", "p", "t", "i", "o", "n", "\"", ":", "\"", "e", "\"", ",", "\"", "s",
      "t", "e", "p", "s", "\"", ":", "[", "]", "}", "]", "}">>

\* the second action lacks steps
CatalogNoSteps ==
    <<"{", "\"", "a", "c", "t", "i", "o", "n", "s", "\"", ":", "[", "{", "\"", "n", "a",
      "m", "e", "\"", ":", "\"", "a", "\"", ",", "\"", "d", "e", "s", "c", "r", "i", "p",
      "t", "i", "o", "n", "\"", ":", "\"", "d", "\"", ",", "\"", "s", "t", "e", "p", "s",
      "\"", ":", "[", "\"", "{", "q", "}", "\"", "]", "}", ",", "{", "\"", "n", "a", "m",
      "e", "\"", ":", "\"", "b", "\"", ",", "\"", "d", "e", "s", "c", "r", "i", "p", "t",
      "i", "o", "n", "\"", ":", "\"", "e", "\"", "}", "]", "}">>

\* a parameter type outside the enum
CatalogBadType ==
    <<"{", "\"", "a", "c", "t", "i", "o", "n", "s", "\"", ":", "[", "{", "\"", "n", "a",
      "m", "e", "\"", ":", "\"", "a", "\"", ",", "\"", "d", "e", "s", "c", "r", "i", "p",
      "t", "i", "o", "n", "\"", ":", "\"", "d", "\"", ",", "\"", "s", "t", "e", "p", "s",
      "\"", ":", "[", "\"", "{", "q", "}", "\"", "]", "}", ",", "{", "\"", "n", "a", "m",
      "e", "\"", ":", "\"", "b", "\"", ",", "\"", "d", "e", "s", "c", "r", "i", "p", "t",
      "i", "o", "n", "\"", ":", "\"", "e", "\"", ",", "\"", "s", "t", "e", "p", "s",
      "\"", ":", "[", "]", ",", "\"", "p", "a", "r", "a", "m", "e", "t", "e", "r", "s",
      "\"", ":", "[", "{", "\"", "n", "a", "m", "e", "\"", ":", "\"", "q", "\"", ",",
      "\"", "t", "y", "p", "e", "\"", ":", "\"", "d", "a", "t", "e", "\"", ",", "\"",
      "d", "e", "s", "c", "r", "i", "p", "t", "i", "o", "n", "\"", ":", "\"", "p", "\"",
      "}", "]", "}", "]", "}">>

\* an object without actions
CatalogNoActions ==
    <<"{", "\"", "a", "\"", ":", "1", "}">>

\* prose without braces
TextProse ==
    <<"N", "o", " ", "a", "c", "t", "i", "o", "n", "s", " ", "f", "o", "u", "n", "d", ".">>

\* a text that starts with "{" and has no "}"
TextOpenBrace ==
    <<"{", " ", "o", "o", "p", "s">>

ProseBefore ==
    <<"H", "e", "r", "e", " ", "i", "s", " ", "t", "h", "e", " ", "r", "e", "s", "u",
      "l", "t", ":", " ">>

ProseAfter ==
    <<" ", "H", "o", "p", "e", " ", "t", "h", "i", "s", " ", "h", "e", "l", "p", "s", "!">>

ProseAfterBrace ==
    <<" ", "U", "s", "e", " ", "{", "}", " ", "a", "s", " ", "i", "n", "p", "u", "t", ".">>

\* prose longer than the excerpt the non-JSON error quotes
TextLong ==
    [k \in 1..(ExcerptLength + Len(TextProse)) |-> IF k <= ExcerptLength THEN "x" ELSE "y"]

Catalogs ==
    {CatalogTwo, CatalogEmpty, CatalogExtraKey, CatalogNoName, CatalogNoSteps,
     CatalogBadType, CatalogNoActions}

Payloads == Catalogs \cup {TextProse, TextOpenBrace, TextLong}

Wrappings ==
    {"bare", "padded", "fenceJson", "fenceJsonUpper", "fence", "fencePadded", "prose",
     "proseFence", "trailing", "proseTrailing", "proseTrailingBrace"}

\* the message an agent composes around the text t
Wrap(w, t) ==
    CASE w = "bare" -> t
      [] w = "padded" -> <<"\n", " ">> \o t \o <<" ", "\n">>
      [] w = "fenceJson" -> FenceJson \o <<"\n">> \o t \o <<"\n">> \o Fence
      [] w = "fenceJsonUpper" ->
            Fence \o <<"J", "S", "O", "N">> \o <<"\n">> \o t \o <<"\n">> \o Fence
      [] w = "fence" -> Fence \o <<"\n">> \o t \o <<"\n">> \o Fence
      [] w = "fencePadded" -> <<" ", "\n">> \o FenceJson \o <<" ">> \o t \o Fence \o <<"\n">>
      [] w = "prose" -> ProseBefore \o t
      [] w = "proseFence" -> ProseBefore \o <<"\n">> \o FenceJson \o <<"\n">> \o t \o <<"\n">> \o Fence
      [] w = "trailing" -> t \o ProseAfter
      [] w = "proseTrailing" -> ProseBefore \o t \o ProseAfter
      [] w = "proseTrailingBrace" -> ProseBefore \o t \o ProseAfterBrace

AgentResults ==
    {AgentResult(k, <<>>) : k \in {"threw", "null", "noMessage", "message"}}
    \cup {[kind |-> "message", message |-> Wrap(w, t), payload |-> t, wrapping |-> w] :
             w \in Wrappings, t \in Payloads}

-----------------------------------------------------------------------------
(* discoverActions on its own, applied to every agent result *)

InitDiscovery ==
    /\ impl \in {"monolith", "modular"}
    /\ url = UrlHome
    /\ sessionId = TRUE
    /\ vault = NoCredentials
    /\ pc = "discoverActions"
    /\ outcome = "running"
    /\ reason = "none"
    /\ pageUrl = UrlHome
    /\ analysis = NoAnalysis
    /\ credentials = NoCredentials
    /\ userInput = NoInput
    /\ trace = <<>>
    /\ lastInsp = NoInsp
    /\ log = {}
    /\ cpc = "none"
    /\ skipAuth = FALSE
    /\ agentResult \in AgentResults
    /\ discovered = NotDiscovered
    /\ lookupIn = NoLookup
    /\ lookupOut = NoLookupOut
    /\ ctx = Idle
    /\ envFile = Idle
    /\ sh = Idle
    /\ build = Idle

DiscoverActions ==
    /\ pc = "discoverActions"
    /\ \E engine \in SyntaxErrorQuotes :
           discovered' = discoverActions(impl, agentResult, engine)
    /\ pc' = "done"
    /\ UNCHANGED <<impl, url, sessionId, vault, outcome, reason, pageUrl, analysis,
                   credentials, userInput, trace, lastInsp, log, cpc, skipAuth,
                   agentResult, lookupIn, lookupOut>>
    /\ UNCHANGED later

NextDiscovery == DiscoverActions

SpecDiscovery == InitDiscovery /\ [][NextDiscovery]_vars

-----------------------------------------------------------------------------
(* createMCPServer up to the generated repository, one action per awaited call *)

CreateCall(name, ok) == [call |-> name, at |-> cpc, ok |-> ok, requiresAuth |-> FALSE]

\* catch (error) { ...; throw error } around authenticateToWebsite
AfterAuthenticateSwallow(settled) == "discover"

AfterAuthenticate(settled) == IF settled.how = "resolved" THEN "discover" ELSE "threw"

\* the agent results createMCPServer is run with
CreateAgentResults ==
    {AgentResult("threw", <<>>)}
    \cup {[kind |-> "message", message |-> Wrap("bare", t), payload |-> t,
           wrapping |-> "bare"] : t \in {CatalogEmpty, CatalogNoActions}}

InitCreate ==
    /\ impl \in {"monolith", "modular"}
    /\ url \in TargetUrls
    /\ sessionId \in BOOLEAN
    /\ vault \in {NoCredentials, StoredCredentials}
    /\ pc = "idle"
    /\ outcome = "running"
    /\ reason = "none"
    /\ pageUrl = <<"a", "b", "o", "u", "t", ":", "b", "l", "a", "n", "k">>
    /\ analysis = NoAnalysis
    /\ credentials = NoCredentials
    /\ userInput = NoInput
    /\ trace = <<>>
    /\ lastInsp = NoInsp
    /\ log = {}
    /\ cpc = "getStagehandInstance"
    /\ skipAuth \in BOOLEAN
    /\ agentResult = NoAgentResult
    /\ discovered = NotDiscovered
    /\ lookupIn = NoLookup
    /\ lookupOut = NoLookupOut
    /\ ctx = Idle
    /\ envFile = Idle
    /\ sh = Idle
    /\ build = Idle

\* const stagehand = await getStagehandInstance(domain); then the test of skipAuth and,
\* without it, the call of authenticateToWebsite
GetStagehandInstance ==
    /\ cpc = "getStagehandInstance"
    /\ \E ok \in BOOLEAN :
        /\ trace' = Append(trace, CreateCall("getStagehandInstance", ok))
        /\ cpc' = IF ~ok THEN "threw"
                  ELSE IF skipAuth THEN "skipAwaitActivePage" ELSE "authenticating"
        /\ pc' = IF ok /\ ~skipAuth THEN "awaitActivePage" ELSE pc
    /\ UNCHANGED <<impl, url, sessionId, vault, outcome, reason, pageUrl, analysis,
                   credentials, userInput, lastInsp, log, skipAuth, agentResult,
                   discovered, lookupIn, lookupOut>>
    /\ UNCHANGED later

\* await authenticateToWebsite(...) settles
AuthenticateSettled ==
    /\ cpc = "authenticating"
    /\ pc = "done"
    /\ cpc' = AfterAuthenticate(Settled)
    /\ UNCHANGED <<impl, url, sessionId, vault, pc, outcome, reason, pageUrl, analysis,
                   credentials, userInput, trace, lastInsp, log, skipAuth, agentResult,
                   discovered, lookupIn, lookupOut>>
    /\ UNCHANGED later

\* skipAuth: const activePage = await context.awaitActivePage(10_000)
SkipAwaitActivePage ==
    /\ cpc = "skipAwaitActivePage"
    /\ \E ok \in BOOLEAN :
        /\ trace' = Append(trace, CreateCall("awaitActivePage", ok))
        /\ cpc' = IF ok THEN "skipNavigate" ELSE "threw"
    /\ UNCHANGED <<impl, url, sessionId, vault, pc, outcome, reason, pageUrl, analysis,
                   credentials, userInput, lastInsp, log, skipAuth, agentResult,
                   discovered, lookupIn, lookupOut>>
    /\ UNCHANGED later

\* skipAuth: await activePage.goto(url, ...)
SkipNavigate ==
    /\ cpc = "skipNavigate"
    /\ \E ok \in BOOLEAN :
        /\ trace' = Append(trace, CreateCall("goto", ok))
        /\ pageUrl' \in IF ok THEN {url} \cup RedirectUrls ELSE {pageUrl}
        /\ cpc' = IF ok THEN "discover" ELSE "threw"
    /\ UNCHANGED <<impl, url, sessionId, vault, pc, outcome, reason, analysis,
                   credentials, userInput, lastInsp, log, skipAuth, agentResult,
                   discovered, lookupIn, lookupOut>>
    /\ UNCHANGED later

\* const actions = await discoverActions(stagehand, domain)
Discover ==
    /\ cpc = "discover"
    /\ \E r \in CreateAgentResults, engine \in SyntaxErrorQuotes :
        /\ agentResult' = r
        /\ discovered' = discoverActions(impl, r, engine)
        /\ trace' = Append(trace, CreateCall("discoverActions", discovered'.ended = "returned"))
        /\ cpc' = IF discovered'.ended = "returned" THEN "mkdir" ELSE "threw"
    /\ UNCHANGED <<impl, url, sessionId, vault, pc, outcome, reason, pageUrl, analysis,
                   credentials, userInput, lastInsp, log, skipAuth, lookupIn, lookupOut>>
    /\ UNCHANGED later

\* await fs.mkdir(outputDir, ...); await fs.mkdir(path.join(outputDir, "src"), ...)
MakeDirectories ==
    /\ cpc = "mkdir"
    /\ \E ok \in BOOLEAN :
        /\ trace' = Append(trace, CreateCall("mkdir", ok))
        /\ cpc' = IF ok THEN "generate" ELSE "threw"
    /\ UNCHANGED <<impl, url, sessionId, vault, pc, outcome, reason, pageUrl, analysis,
                   credentials, userInput, lastInsp, log, skipAuth, agentResult,
                   discovered, lookupIn, lookupOut>>
    /\ UNCHANGED later

\* let serverCode = await generateMCPServerCode(domain, url, actions, outputDir)
GenerateCode ==
    /\ cpc = "generate"
    /\ \E ok \in BOOLEAN :
        /\ trace' = Append(trace, CreateCall("generateMCPServerCode", ok))
        /\ cpc' = IF ok THEN "install" ELSE "threw"
    /\ UNCHANGED <<impl, url, sessionId, vault, pc, outcome, reason, pageUrl, analysis,
                   credentials, userInput, lastInsp, log, skipAuth, agentResult,
                   discovered, lookupIn, lookupOut>>
    /\ UNCHANGED later

NextCreate ==
    \/ Next
    \/ GetStagehandInstance
    \/ AuthenticateSettled
    \/ SkipAwaitActivePage
    \/ SkipNavigate
    \/ Discover
    \/ MakeDirectories
    \/ GenerateCode

SpecCreate == InitCreate /\ [][NextCreate]_vars

-----------------------------------------------------------------------------
(* createMCPServer: what the claims speak of *)

\* the positions in trace of the calls createMCPServer makes after the authentication phase
AfterAuthCalls ==
    {i \in 1..Len(trace) : trace[i].call \in {"discoverActions", "mkdir", "generateMCPServerCode"}}

\* the positions in trace of the calls of authenticateToWebsite
AuthCalls == {i \in 1..Len(trace) : trace[i].at \notin
                 {"getStagehandInstance", "skipAwaitActivePage", "skipNavigate",
                  "discover", "mkdir", "generate"}}

\* C13: discoverActions is invoked only after authenticateToWebsite returned or, with
\* skipAuth, after the navigation to the URL completed; once authenticateToWebsite
\* threw, neither discoverActions nor the code generation is ever invoked
C13_DiscoveryAfterAuthentication ==
    /\ \A i \in AfterAuthCalls :
           IF skipAuth
           THEN \E j \in 1..(i - 1) :
                    trace[j].at = "skipNavigate" /\ trace[j].call = "goto" /\ trace[j].ok
           ELSE /\ outcome = "returned"
                /\ pc = "done"
                /\ \A j \in AuthCalls : j < i
    /\ outcome = "raised" => AfterAuthCalls = {}
    /\ cpc \in {"discover", "mkdir", "generate", "install"} =>
           IF skipAuth THEN AuthCalls = {} ELSE outcome = "returned"

\* discoverActions ran after authenticateToWebsite returned through the skip token
C13_Witness ==
    /\ ~skipAuth
    /\ reason = "skipped"
    /\ \E i \in AfterAuthCalls : trace[i].call = "discoverActions"

\* discoverActions ran under skipAuth
C13_WitnessSkipAuth ==
    /\ skipAuth
    /\ \E i \in AfterAuthCalls : trace[i].call = "discoverActions"

\* authenticateToWebsite threw and createMCPServer threw in turn
C13_WitnessThrew == outcome = "raised" /\ cpc = "threw"

-----------------------------------------------------------------------------
(* discoverActions: what the claims speak of *)

\* the catalogs that satisfy DiscoveredActionsResponseSchema
ValidCatalogs == {CatalogTwo, CatalogEmpty, CatalogExtraKey}

\* discoverActions ran on a message composed around the text of a valid catalog
RanOnCatalog(ws) ==
    /\ pc = "done"
    /\ agentResult.kind = "message"
    /\ agentResult.payload \in ValidCatalogs
    /\ agentResult.wrapping \in ws

\* the text handed to JSON.parse parses to the object the catalog text parses to, and
\* discoverActions returns that object's actions
RepairedToCatalog ==
    LET text == jsonString(impl, agentResult.message)
        J == JSONparse(agentResult.payload)
    IN  /\ ~text.threw
        /\ JSONparse(text.text) = J
        /\ discovered = Returned(validatedActions(J.value))

\* C14: bare, fenced (```json or ```), preceded by prose, with or without surrounding
\* whitespace, the message of a valid catalog J is repaired to the same parsed object
C14_RepairYieldsSameObject ==
    RanOnCatalog({"bare", "padded", "fenceJson", "fence", "fencePadded", "prose"})
        => RepairedToCatalog

\* C15 (discovery/index.ts): a valid catalog J followed by trailing prose, with or
\* without leading prose, is repaired to J and J's actions are returned
C15_TrailingProseTolerated ==
    (impl = "modular" /\ RanOnCatalog({"trailing", "proseTrailing"})) => RepairedToCatalog

\* discovery/index.ts ran on a message that, trimmed and without its fences, holds
\* no "{" followed later by a "}"
RanWithoutObject ==
    /\ pc = "done"
    /\ impl = "modular"
    /\ agentResult.kind = "message"
    /\ agentResult.message # <<>>
    /\ ~jsonMatch(stripFences(agentResult.message)).found

\* the first (up to 100) characters of the trimmed, fence-stripped message
Excerpt ==
    LET stripped == stripFences(agentResult.message)
    IN  [k \in 1..(IF Len(stripped) < ExcerptLength THEN Len(stripped) ELSE ExcerptLength)
            |-> stripped[k]]

\* C16 as stated: without a "{" ... "}" pair in the response, discoverActions throws
\* an error whose message quotes the first (up to 100) characters of the response
C16_NonJsonQuoted ==
    RanWithoutObject => (discovered.ended = "threw" /\ discovered.quoted = Excerpt)

\* C16 amended: it throws in every such case; the message quotes the first (up to 100)
\* characters when the response does not start with "{", and is the SyntaxError of
\* JSON.parse when it does
C16_NonJsonQuotedUnlessBrace ==
    RanWithoutObject =>
        /\ discovered.ended = "threw"
        /\ discovered.actions = <<>>
        /\ IF startsWith(stripFences(agentResult.message), <<"{">>)
           THEN discovered.cause = "syntax"
           ELSE discovered.cause = "nonJson" /\ discovered.quoted = Excerpt

\* a response longer than 100 characters was quoted up to its 100th character
C16_Witness ==
    /\ RanWithoutObject
    /\ agentResult.payload = TextLong
    /\ discovered.cause = "nonJson"
    /\ Len(discovered.quoted) = ExcerptLength
    /\ Len(stripFences(agentResult.message)) > ExcerptLength

\* a response starting with "{" without "}" ended in the SyntaxError
C16_WitnessBrace ==
    RanWithoutObject /\ agentResult.payload = TextOpenBrace /\ discovered.cause = "syntax"

\* the names of the actions of a list of JSON objects, in order
ActionNames(actions) == [k \in 1..Len(actions) |-> Get(actions[k], KeyName)]

\* the catalogs one of whose actions breaks DiscoveredActionSchema
BrokenCatalogs == {CatalogNoName, CatalogNoSteps, CatalogBadType}

\* C17: discoverActions returns a catalog only for a non-empty message whose repaired
\* text parses and satisfies DiscoveredActionsResponseSchema, and then all the actions
\* of the response in its order; an absent result or message, a text that does not
\* parse, an action without name or steps or with a parameter type outside the enum
\* make it throw, with no catalog returned
C17_AllOrNothing ==
    pc = "done" =>
        LET text == jsonString(impl, agentResult.message)
            parsed == JSONparse(text.text)
            response == Get(parsed.value, KeyActions).kids
        IN  /\ discovered.ended \in {"returned", "threw"}
            /\ discovered.ended = "returned" =>
                   /\ agentResult.kind = "message" /\ Len(agentResult.message) > 0
                   /\ ~text.threw /\ ~parsed.threw
                   /\ DiscoveredActionsResponseSchema(parsed.value)
                   /\ Len(discovered.actions) = Len(response)
                   /\ ActionNames(discovered.actions) = ActionNames(response)
                   /\ \A k \in 1..Len(response) :
                          /\ Get(discovered.actions[k], KeySteps) = Get(response[k], KeySteps)
                          /\ Get(discovered.actions[k], KeyDescription)
                                 = Get(response[k], KeyDescription)
            /\ (agentResult.kind # "message" \/ agentResult.message = <<>>)
                   => discovered.ended = "threw"
            /\ (agentResult.kind = "message" /\ agentResult.message # <<>>
                    /\ (text.threw \/ parsed.threw))
                   => discovered.ended = "threw"
            /\ agentResult.payload \in BrokenCatalogs => discovered.ended = "threw"
            /\ discovered.ended = "threw" => discovered.actions = <<>>

\* the two actions of a fenced catalog came back, in order
C17_Witness ==
    /\ pc = "done"
    /\ agentResult.payload = CatalogTwo
    /\ agentResult.wrapping = "fenceJson"
    /\ discovered.ended = "returned"
    /\ ActionNames(discovered.actions)
           = <<JsonValue("string", <<"a">>, <<>>), JsonValue("string", <<"b">>, <<>>)>>

\* a catalog whose second action lacks name was rejected whole
C17_WitnessRejected ==
    /\ pc = "done"
    /\ agentResult.payload = CatalogNoName
    /\ agentResult.wrapping = "bare"
    /\ discovered = Threw("schema", <<>>)

-----------------------------------------------------------------------------
(* lookupCredentialsIn1Password: the matching of vault items against the domain *)

\* String.prototype.includes
includes(s, sub) == \E i \in 0..(Len(s) - Len(sub)) : SubSeq(s, i + 1, i + Len(sub)) = sub

Alphanumeric == {Lower[i] : i \in 1..Len(Lower)} \cup Digits

\* value.toLowerCase().replace(/[^a-z0-9]/g, "")
normalize(value) ==
    LET IsAlphanumeric(c) == c \in Alphanumeric
    IN  SelectSeq(toLowerCase(value), IsAlphanumeric)

\* the characters of s before the first one that is in seps
RECURSIVE upTo(_, _)
upTo(s, seps) ==
    IF s = <<>> \/ Head(s) \in seps THEN <<>> ELSE <<Head(s)>> \o upTo(Tail(s), seps)

\* String.prototype.split on the characters of seps
RECURSIVE split(_, _)
split(s, seps) ==
    LET first == upTo(s, seps)
    IN  IF Len(first) = Len(s) THEN <<first>>
        ELSE <<first>> \o split(SubSeq(s, Len(first) + 2, Len(s)), seps)

\* parts.join(".")
RECURSIVE join(_)
join(parts) ==
    IF parts = <<>> THEN <<>>
    ELSE IF Len(parts) = 1 THEN parts[1]
    ELSE parts[1] \o <<".">> \o join(Tail(parts))

\* value.replace(/^https?:\/\//i, "")
stripScheme(value) ==
    LET low == toLowerCase(value)
        http == <<"h", "t", "t", "p", ":", "/", "/">>
        https == <<"h", "t", "t", "p", "s", ":", "/", "/">>
    IN  IF startsWith(low, https) THEN SubSeq(value, Len(https) + 1, Len(value))
        ELSE IF startsWith(low, http) THEN SubSeq(value, Len(http) + 1, Len(value))
        ELSE value

extractHostname(value) ==
    IF value = <<>> THEN <<>>
    ELSE toLowerCase(split(stripScheme(value), {"/", "?", "#"})[1])

\* value.replace(/\./g, "_")
dotsToUnderscores(value) == [k \in 1..Len(value) |-> IF value[k] = "." THEN "_" ELSE value[k]]

\* addCandidate(value)
addCandidate(value) == IF value = <<>> THEN {} ELSE {value, dotsToUnderscores(value)}

\* host.replace(/^www\./, "")
withoutWWW(host) ==
    IF startsWith(host, <<"w", "w", "w", ".">>) THEN SubSeq(host, 5, Len(host)) ELSE host

\* hostWithoutWWW.split(".").filter(Boolean)
labelsOf(hostWithoutWWW) ==
    LET NonEmpty(l) == l # <<>>
    IN  SelectSeq(split(hostWithoutWWW, {"."}), NonEmpty)

\* domainCandidates without the candidates taken from the labels of the host
domainCandidatesNoLabels(domain) ==
    addCandidate(domain) \cup addCandidate(extractHostname(domain))
        \cup addCandidate(withoutWWW(extractHostname(domain)))

domainCandidates(domain) ==
    LET host == extractHostname(domain)
        hostWithoutWWW == withoutWWW(host)
        labels == labelsOf(hostWithoutWWW)
        n == Len(labels)
    IN  addCandidate(domain) \cup addCandidate(host) \cup addCandidate(hostWithoutWWW)
        \cup (IF n > 0 THEN addCandidate(labels[1]) ELSE {})
        \cup (IF n > 1
              THEN addCandidate(join(SubSeq(labels, n - 1, n)))
                   \cup addCandidate(labels[n - 1])
                   \cup addCandidate(join(SubSeq(labels, 1, n - 1)))
              ELSE {})

\* Array.from(domainCandidates).map(normalize).filter(Boolean)
domainSignatures(domain) == {normalize(c) : c \in domainCandidates(domain)} \ {<<>>}

\* [titleSignature, ...websiteSignatures]: the title's signature is kept when empty
searchable(item) ==
    {normalize(item.title)}
    \cup ({normalize(IF extractHostname(item.websites[k]) # <<>>
                     THEN extractHostname(item.websites[k]) ELSE item.websites[k]) :
              k \in 1..Len(item.websites)} \ {<<>>})

\* a comparison of the whole host with the item's signatures, without candidates
matchesDomainExact(item, domain) == normalize(extractHostname(domain)) \in searchable(item)

matchesDomain(item, domain) ==
    \E candidate \in searchable(item), signature \in domainSignatures(domain) :
        includes(candidate, signature) \/ includes(signature, candidate)

-----------------------------------------------------------------------------
(* lookupCredentialsIn1Password: the vault, the backend and the function *)

\* a field of a vault item: it carries its value, or the value is concealed and
\* has to be resolved through a secret reference, or the item has no such field
Field(kind, value) == [kind |-> kind, value |-> value]

Item(title, websites, category, username, password) ==
    [title |-> title, websites |-> websites, category |-> category,
     username |-> username, password |-> password]

LinearItem ==
    Item(<<"L", "i", "n", "e", "a", "r">>,
         <<<<"h", "t", "t", "p", "s", ":", "/", "/", "l", "i", "n", "e", "a", "r", ".", "a", "p", "p", "/", "l", "o", "g", "i", "n">>>>,
         "Login", Field("value", "alice@x.io"), Field("value", "hunter2"))

\* a secure note with the title of the login item
LinearNote ==
    Item(<<"L", "i", "n", "e", "a", "r">>, <<>>, "SecureNote",
         Field("value", "note"), Field("value", "note"))

\* a login item whose password is concealed
ConcealedItem ==
    Item(<<"L", "i", "n", "e", "a", "r", " ", "(", "w", "o", "r", "k", ")">>,
         <<<<"l", "i", "n", "e", "a", "r", ".", "a", "p", "p">>>>,
         "Login", Field("value", "bob@x.io"), Field("concealed", "s3cret"))

\* a login item without a password field
NoPasswordItem ==
    Item(<<"l", "i", "n", "e", "a", "r", ".", "a", "p", "p">>, <<>>, "Login",
         Field("value", "carol@x.io"), Field("absent", ""))

\* a login item whose title has no letter or digit and that has no website
UntitledItem ==
    Item(<<"-", "-", "-">>, <<>>, "Login", Field("value", "dave@x.io"), Field("value", "pa55"))

ExampleItem ==
    Item(<<"E", "x", "a", "m", "p", "l", "e">>,
         <<<<"H", "T", "T", "P", ":", "/", "/", "E", "x", "a", "m", "p", "l", "e", ".", "c", "o", "m", "?", "n", "e", "x", "t", "=", "1">>>>,
         "Login", Field("value", "erin@x.io"), Field("value", "letmein"))

\* a login item of another site whose title begins with the first label of app.linear.app
AppStoreItem ==
    Item(    <<"A", "p", "p", " ", "S", "t", "o", "r", "e">>,
         <<    <<"h", "t", "t", "p", "s", ":", "/", "/", "a", "p", "p", "s", ".", "a", "p", "p",
      "l", "e", ".", "c", "o", "m">>>>,
         "Login", Field("value", "frank@x.io"), Field("value", "qwerty"))

VaultItems ==
    {LinearItem, LinearNote, ConcealedItem, NoPasswordItem, UntitledItem, ExampleItem,
     AppStoreItem}

\* the longest vault listing
MaxItems == 2

VaultListings ==
    UNION {[1..n -> VaultItems] : n \in 0..MaxItems}

DomainLinear == <<"l", "i", "n", "e", "a", "r", ".", "a", "p", "p">>

DomainWwwLinear == <<"w", "w", "w", ".", "l", "i", "n", "e", "a", "r", ".", "a", "p", "p">>

DomainAppLinear == <<"a", "p", "p", ".", "l", "i", "n", "e", "a", "r", ".", "a", "p", "p">>

DomainExample == <<"e", "x", "a", "m", "p", "l", "e", ".", "c", "o", "m">>

DomainNotion == <<"n", "o", "t", "i", "o", "n", ".", "s", "o">>

LookupDomains == {DomainLinear, DomainWwwLinear, DomainAppLinear, DomainExample, DomainNotion}

\* the step at which the vault backend fails: creating the client, listing the vaults
\* (an error, or no vault at all), listing the items, fetching an item, resolving the
\* secret references (an error, or a response without the secret)
BackendFaults ==
    {"none", "client", "vaults", "noVaults", "list", "get", "resolve", "unresolved"}

\* catch (error) { console.log(...); return null }, around every backend call
OnBackendErrorRethrow(step) == "throw"

OnBackendError(step) == "null"

LookupNull == [ended |-> "returned", found |-> FALSE, username |-> "", password |-> ""]

LookupFound(username, password) ==
    [ended |-> "returned", found |-> TRUE, username |-> username, password |-> password]

LookupFailed(step) ==
    IF OnBackendError(step) = "null" THEN LookupNull
    ELSE [ended |-> "threw", found |-> FALSE, username |-> "", password |-> ""]

\* credentials[key] after the loop over fullItem.fields and the resolution of the
\* secret references ("" stands for undefined)
credentialOf(field, fault) ==
    IF field.kind = "value" THEN field.value
    ELSE IF field.kind = "concealed" /\ fault # "unresolved" THEN field.value
    ELSE ""

\* unresolved.length > 0: client.secrets.resolveAll is called
needsResolution(item) == "concealed" \in {item.username.kind, item.password.kind}

\* for (const item of items) from the k-th item on
RECURSIVE scanItems(_, _, _, _)
scanItems(domain, items, k, fault) ==
    IF k > Len(items) THEN LookupNull
    ELSE IF matchesDomain(items[k], domain) /\ items[k].category = "Login"
    THEN IF fault = "get" THEN LookupFailed("get")
         ELSE IF needsResolution(items[k]) /\ fault = "resolve" THEN LookupFailed("resolve")
         ELSE IF credentialOf(items[k].username, fault) # ""
                 /\ credentialOf(items[k].password, fault) # ""
         THEN LookupFound(credentialOf(items[k].username, fault),
                          credentialOf(items[k].password, fault))
         ELSE scanItems(domain, items, k + 1, fault)
    ELSE scanItems(domain, items, k + 1, fault)

lookupCredentials(domain, items, fault) ==
    IF fault \in {"client", "vaults", "noVaults", "list"} THEN LookupFailed(fault)
    ELSE scanItems(domain, items, 1, fault)

-----------------------------------------------------------------------------
(* lookupCredentialsIn1Password on its own, for every domain, vault and fault *)

InitLookup ==
    /\ impl = "monolith"
    /\ url = UrlHome
    /\ sessionId = TRUE
    /\ vault = NoCredentials
    /\ pc = "lookupCredentials"
    /\ outcome = "running"
    /\ reason = "none"
    /\ pageUrl = UrlHome
    /\ analysis = NoAnalysis
    /\ credentials = NoCredentials
    /\ userInput = NoInput
    /\ trace = <<>>
    /\ lastInsp = NoInsp
    /\ log = {}
    /\ cpc = "none"
    /\ skipAuth = FALSE
    /\ agentResult = NoAgentResult
    /\ discovered = NotDiscovered
    /\ lookupIn \in [domain : LookupDomains, items : VaultListings, fault : BackendFaults]
    /\ lookupOut = NoLookupOut
    /\ ctx = Idle
    /\ envFile = Idle
    /\ sh = Idle
    /\ build = Idle

LookupCredentialsIn1Password ==
    /\ pc = "lookupCredentials"
    /\ lookupOut' = lookupCredentials(lookupIn.domain, lookupIn.items, lookupIn.fault)
    /\ pc' = "done"
    /\ UNCHANGED <<impl, url, sessionId, vault, outcome, reason, pageUrl, analysis,
                   credentials, userInput, trace, lastInsp, log, cpc, skipAuth,
                   agentResult, discovered, lookupIn>>
    /\ UNCHANGED later

NextLookup == LookupCredentialsIn1Password

SpecLookup == InitLookup /\ [][NextLookup]_vars

-----------------------------------------------------------------------------
(* lookupCredentialsIn1Password: what the claims speak of *)

\* item k of the listing is a Login item that matches the domain
Hit(k) ==
    /\ matchesDomain(lookupIn.items[k], lookupIn.domain)
    /\ lookupIn.items[k].category = "Login"

\* item k carries both its username and its password
Plain(k) == lookupIn.items[k].username.kind = "value" /\ lookupIn.items[k].password.kind = "value"

\* the backend raised an error during the lookup
BackendRaised ==
    \/ lookupIn.fault \in {"client", "vaults", "noVaults", "list"}
    \/ lookupIn.fault = "get" /\ \E k \in 1..Len(lookupIn.items) : Hit(k)
    \/ /\ lookupIn.fault = "resolve"
       /\ \E k \in 1..Len(lookupIn.items) :
              /\ Hit(k) /\ needsResolution(lookupIn.items[k])
              /\ \A j \in 1..(k - 1) : ~(Hit(j) /\ Plain(j))

\* C18: lookupCredentialsIn1Password never throws; an error of the vault backend at
\* any step (client, vaults, items, item fetch, secret resolution) gives null
C18_LookupNeverThrows ==
    pc = "done" =>
        /\ lookupOut.ended = "returned"
        /\ BackendRaised => lookupOut = LookupNull

\* the fetch of the matching item failed and null came back
C18_Witness ==
    /\ pc = "done"
    /\ lookupIn.fault = "get"
    /\ lookupIn.items = <<LinearItem>>
    /\ lookupIn.domain = DomainLinear
    /\ lookupOut = LookupNull

\* the resolution of a concealed password failed and null came back
C18_WitnessResolve ==
    /\ pc = "done"
    /\ lookupIn.fault = "resolve"
    /\ lookupIn.items = <<ConcealedItem>>
    /\ lookupIn.domain = DomainLinear
    /\ lookupOut = LookupNull

\* a lookup in a vault that holds the item titled "Linear" and nothing else, with a
\* backend that answers every call
LinearLookup(domains) ==
    /\ pc = "done"
    /\ lookupIn.items = <<LinearItem>>
    /\ lookupIn.fault = "none"
    /\ lookupIn.domain \in domains

\* C19 as stated: the lookup for app.linear.app does not match the item, the lookups
\* for linear.app and www.linear.app match it
C19_SubdomainDoesNotMatch ==
    /\ LinearLookup({DomainAppLinear}) => ~lookupOut.found
    /\ LinearLookup({DomainLinear, DomainWwwLinear}) => lookupOut.found

\* C19 amended: the lookups for app.linear.app, linear.app and www.linear.app all
\* match the item and return its credentials; a lookup for another site does not
C19_SubdomainMatches ==
    /\ LinearLookup({DomainAppLinear, DomainLinear, DomainWwwLinear})
           => lookupOut = LookupFound("alice@x.io", "hunter2")
    /\ LinearLookup({DomainExample, DomainNotion}) => lookupOut = LookupNull

\* the lookup for app.linear.app returned the credentials of the item
C19_Witness ==
    LinearLookup({DomainAppLinear}) /\ lookupOut.found /\ lookupOut.username = "alice@x.io"

-----------------------------------------------------------------------------
(* The credential prompt of the create workflow *)

\* the positions in trace of the calls of discoverActions
DiscoverCalls == {i \in 1..Len(trace) : trace[i].call = "discoverActions"}

\* C20: after a verified manual login the workflow asks the user whether to save the
\* credentials to 1Password before it goes on to discoverActions, and credentials are
\* saved only after such a login and such a prompt
C20_SavePromptBeforeDiscovery ==
    /\ (outcome = "returned" /\ reason = "confirmed") =>
           \A i \in DiscoverCalls :
               \E j \in 1..(i - 1) : trace[j].call = "promptToSaveCredentials"
    /\ \A i \in 1..Len(trace) :
           trace[i].call = "saveCredentialsTo1Password" =>
               /\ outcome = "returned" /\ reason = "confirmed"
               /\ \E j \in 1..(i - 1) : trace[j].call = "promptToSaveCredentials" /\ trace[j].ok

-----------------------------------------------------------------------------
(* The variables of the parts modelled above, for the specifications below *)

core == <<impl, url, sessionId, vault, pc, outcome, reason, pageUrl, analysis,
          credentials, userInput, trace, lastInsp, log, cpc, skipAuth, agentResult,
          discovered, lookupIn, lookupOut>>

\* none of authenticateToWebsite, createMCPServer, discoverActions and the lookup runs
InitCoreIdle ==
    /\ impl = "modular"
    /\ url = UrlHome
    /\ sessionId = TRUE
    /\ vault = NoCredentials
    /\ pc = "idle"
    /\ outcome = "running"
    /\ reason = "none"
    /\ pageUrl = UrlHome
    /\ analysis = NoAnalysis
    /\ credentials = NoCredentials
    /\ userInput = NoInput
    /\ trace = <<>>
    /\ lastInsp = NoInsp
    /\ log = {}
    /\ cpc = "none"
    /\ skipAuth = FALSE
    /\ agentResult = NoAgentResult
    /\ discovered = NotDiscovered
    /\ lookupIn = NoLookup
    /\ lookupOut = NoLookupOut

-----------------------------------------------------------------------------
(* services/session: the context id saved for each domain.  ctx.files is the     *)
(* directory ~/.mcpkit/contexts, ctx.created the number of contexts Browserbase  *)
(* has created, ctx.calls the calls made so far, one run after the other.        *)

ContextDomains == {"x.io", "y.io"}

\* the longest sequence of calls on the session service
MaxContextCalls == 4

NoFile == [exists |-> FALSE, content |-> <<>>]

File(content) == [exists |-> TRUE, content |-> content]

\* the id of the n-th context Browserbase creates
ContextId(n) == <<"c", "t", "x", "-">> \o <<CHOOSE c \in Digits : c = ToString(n)>>

Null == [isNull |-> TRUE, id |-> <<>>]

Id(id) == [isNull |-> FALSE, id |-> id]

\* loadContextId that never finds the file
loadContextIdNoFile(files, domain) == Null

\* try { return (await fs.readFile(path, "utf-8")).trim() } catch { return null }
loadContextId(files, domain) ==
    IF files[domain].exists THEN Id(trim(files[domain].content)) ELSE Null

\* fs.mkdir(CONTEXTS_DIR); fs.writeFile(getContextFilePath(domain), contextId)
saveContextId(files, domain, contextId) == [files EXCEPT ![domain] = File(contextId)]

\* try { await fs.unlink(path) } catch { /* ignore */ }
deleteContextId(files, domain) == [files EXCEPT ![domain] = NoFile]

\* if (existingContextId): null and the empty string are falsy
Truthy(loaded) == ~loaded.isNull /\ loaded.id # <<>>

ContextCall(op, domain, result, created, threw) ==
    [op |-> op, domain |-> domain, result |-> result, created |-> created, threw |-> threw]

InitContext ==
    /\ InitCoreIdle
    /\ ctx = [pc |-> "ready", files |-> [d \in ContextDomains |-> NoFile],
              created |-> 0, calls |-> <<>>]
    /\ envFile = Idle
    /\ sh = Idle
    /\ build = Idle

\* getOrCreateContext(domain): the saved id, or createContext(domain), in which
\* browserbase.contexts.create or saveContextId may throw
GetOrCreateContext(domain) ==
    /\ ctx.pc = "ready"
    /\ Len(ctx.calls) < MaxContextCalls
    /\ LET existing == loadContextId(ctx.files, domain)
           fresh == ContextId(ctx.created + 1)
       IN  IF Truthy(existing)
           THEN ctx' = [ctx EXCEPT !.calls = Append(@,
                            ContextCall("getOrCreateContext", domain, existing, FALSE, FALSE))]
           ELSE \E how \in {"ok", "createThrows", "saveThrows"} :
                    ctx' = [ctx EXCEPT
                        !.created = IF how = "createThrows" THEN @ ELSE @ + 1,
                        !.files = IF how = "ok" THEN saveContextId(@, domain, fresh) ELSE @,
                        !.calls = Append(@,
                            ContextCall("getOrCreateContext", domain,
                                        IF how = "ok" THEN Id(fresh) ELSE Null,
                                        how # "createThrows", how # "ok"))]
    /\ UNCHANGED <<core, envFile, sh, build>>

DeleteContextId(domain) ==
    /\ ctx.pc = "ready"
    /\ Len(ctx.calls) < MaxContextCalls
    /\ ctx' = [ctx EXCEPT !.files = deleteContextId(@, domain),
                          !.calls = Append(@,
                              ContextCall("deleteContextId", domain, Null, FALSE, FALSE))]
    /\ UNCHANGED <<core, envFile, sh, build>>

LoadContextId(domain) ==
    /\ ctx.pc = "ready"
    /\ Len(ctx.calls) < MaxContextCalls
    /\ ctx' = [ctx EXCEPT !.calls = Append(@,
                   ContextCall("loadContextId", domain, loadContextId(ctx.files, domain),
                               FALSE, FALSE))]
    /\ UNCHANGED <<core, envFile, sh, build>>

NextContext ==
    \/ \E d \in ContextDomains : GetOrCreateContext(d)
    \/ \E d \in ContextDomains : DeleteContextId(d)
    \/ \E d \in ContextDomains : LoadContextId(d)

SpecContext == InitContext /\ [][NextContext]_vars

\* the positions of the calls made on the domain of call i after it and before call j
Between(i, j) == {k \in (i + 1)..(j - 1) : ctx.calls[k].domain = ctx.calls[i].domain}

\* call i is a getOrCreateContext that returned an id
ReturnedId(i) ==
    ctx.calls[i].op = "getOrCreateContext" /\ ~ctx.calls[i].threw

-----------------------------------------------------------------------------
(* The global env file ~/.mcpkit/.env.  Its content is a sequence of symbols: a  *)
(* symbol is a newline, "=", a blank, or a run of characters that holds none of  *)
(* them (a key, a value, a comment).                                             *)

TokenKey == "OP_SERVICE_ACCOUNT_TOKEN"

\* `OP_SERVICE_ACCOUNT_TOKEN=`
TokenPrefix == <<TokenKey, "=">>

\* `OP_SERVICE_ACCOUNT_TOKEN=${token}`
TokenLine(token) == TokenPrefix \o <<token>>

\* envContent.split("\n")
linesOf(content) == split(content, {"\n"})

\* lines.join("\n")
RECURSIVE joinLines(_)
joinLines(lines) ==
    IF lines = <<>> THEN <<>>
    ELSE IF Len(lines) = 1 THEN lines[1]
    ELSE lines[1] \o <<"\n">> \o joinLines(Tail(lines))

IsTokenLine(line) == startsWith(line, TokenPrefix)

\* lines.findIndex((line) => line.startsWith("OP_SERVICE_ACCOUNT_TOKEN=")), 0 for -1
tokenLineIndex(lines) ==
    IF \E k \in 1..Len(lines) : IsTokenLine(lines[k])
    THEN Least({k \in 1..Len(lines) : IsTokenLine(lines[k])})
    ELSE 0

\* the content read: "" when the file does not exist
readEnv(file) == IF file.exists THEN file.content ELSE <<>>

\* saveTokenToEnv that appends the token line whatever the file holds
saveTokenToEnvAppend(file, token) ==
    File(readEnv(file) \o TokenLine(token) \o <<"\n">>)

\* the file saveTokenToEnv(token) writes
saveTokenToEnv(file, token) ==
    LET envContent == readEnv(file)
        lines == linesOf(envContent)
        index == tokenLineIndex(lines)
    IN  IF index > 0
        THEN File(joinLines([lines EXCEPT ![index] = TokenLine(token)]))
        ELSE File(envContent
                  \o (IF envContent # <<>> /\ envContent[Len(envContent)] # "\n"
                      THEN <<"\n">> ELSE <<>>)
                  \o TokenLine(token) \o <<"\n">>)

\* line.split("=")
splitKeyValue(line) == split(line, {"="})

\* existingConfig: the lines with a non-empty key and an "="
hasExisting(file) ==
    \E k \in 1..Len(linesOf(readEnv(file))) :
        LET parts == splitKeyValue(linesOf(readEnv(file))[k])
        IN  parts[1] # <<>> /\ Len(parts) > 1

\* the template setupConfig writes
ConfigTemplate(projectId, apiKey, geminiKey) ==
    <<"# mcpkit Global Configuration", "\n",
      "# This file is used by all generated MCP servers", "\n",
      "\n",
      "# Browserbase Configuration", "\n",
      "BROWSERBASE_PROJECT_ID", "=", projectId, "\n",
      "BROWSERBASE_API_KEY", "=", apiKey, "\n",
      "\n",
      "# AI Model Configuration (Gemini)", "\n",
      "GEMINI_API_KEY", "=", geminiKey, "\n",
      "GOOGLE_GENERATIVE_AI_API_KEY", "=", geminiKey, "\n">>

\* what the user answers: overwrite to the confirm prompt (asked only when a
\* configuration exists), and the three values, or nothing when the prompts are cancelled
Answers ==
    [overwrite : BOOLEAN, cancelled : BOOLEAN, projectId : {"proj-2"},
     apiKey : {"bb-2"}, geminiKey : {"gem-2"}]

\* the file after setupConfig()
setupConfig(file, answer) ==
    IF hasExisting(file) /\ ~answer.overwrite THEN file
    ELSE IF answer.cancelled THEN file
    ELSE File(ConfigTemplate(answer.projectId, answer.apiKey, answer.geminiKey))

\* the env files a run can start from
InitialEnvFiles ==
    {NoFile,
     File(<<>>),
     File(ConfigTemplate("proj-1", "bb-1", "gem-1")),
     File(<<"FOO", "=", "bar">>),
     File(<<"FOO", "=", "bar", "\n">>),
     File(<<"FOO", "=", "bar", "\n", TokenKey, "=", "tok-0", "\n", "BAZ", "=", "1">>),
     File(<<"OP_SERVICE_ACCOUNT_TOKEN_OLD", "=", "tok-9", "\n", "#", " ", TokenKey, "=", "\n">>)}

Tokens == {"tok-1", "tok-2"}

\* the longest sequence of calls on the env file
MaxEnvCalls == 3

EnvCall(op, arg, before, after) == [op |-> op, arg |-> arg, before |-> before, after |-> after]

InitEnv ==
    /\ InitCoreIdle
    /\ ctx = Idle
    /\ envFile \in [pc : {"ready"}, file : InitialEnvFiles, processEnv : {""}, calls : {<<>>}]
    /\ sh = Idle
    /\ build = Idle

SaveTokenToEnv(token) ==
    /\ envFile.pc = "ready"
    /\ Len(envFile.calls) < MaxEnvCalls
    /\ envFile' = [envFile EXCEPT
           !.file = saveTokenToEnv(@, token),
           !.processEnv = token,
           !.calls = Append(@, EnvCall("saveTokenToEnv", token, envFile.file,
                                       saveTokenToEnv(envFile.file, token)))]
    /\ UNCHANGED <<core, ctx, sh, build>>

SetupConfig(answer) ==
    /\ envFile.pc = "ready"
    /\ Len(envFile.calls) < MaxEnvCalls
    /\ envFile' = [envFile EXCEPT
           !.file = setupConfig(@, answer),
           !.calls = Append(@, EnvCall("setupConfig",
                                       IF hasExisting(envFile.file) /\ ~answer.overwrite
                                       THEN "declined"
                                       ELSE IF answer.cancelled THEN "cancelled" ELSE "written",
                                       envFile.file, setupConfig(envFile.file, answer)))]
    /\ UNCHANGED <<core, ctx, sh, build>>

NextEnv ==
    \/ \E token \in Tokens : SaveTokenToEnv(token)
    \/ \E answer \in Answers : SetupConfig(answer)

SpecEnv == InitEnv /\ [][NextEnv]_vars

TokenLinesIn(content) ==
    {k \in 1..Len(linesOf(content)) : IsTokenLine(linesOf(content)[k])}

OtherLines(content) == SelectSeq(linesOf(content), LAMBDA line : ~IsTokenLine(line))

SaveCalls == {i \in 1..Len(envFile.calls) : envFile.calls[i].op = "saveTokenToEnv"}

\* the call replaced the token line where it stood: same number of lines, every other line as before
ReplacedInPlace(call) ==
    LET b == linesOf(readEnv(call.before))
        a == linesOf(call.after.content)
    IN  /\ Len(a) = Len(b)
        /\ \A k \in 1..Len(b) :
               a[k] = (IF k = tokenLineIndex(b) THEN TokenLine(call.arg) ELSE b[k])

\* the call added one line after the lines the file held, which are as before
AppendedOneLine(call) ==
    LET b == linesOf(readEnv(call.before))
        a == linesOf(call.after.content)
        kept == IF b[Len(b)] = <<>> THEN SubSeq(b, 1, Len(b) - 1) ELSE b
    IN  a = kept \o <<TokenLine(call.arg), <<>>>>

C22_WitnessMiddle ==
    \E i \in SaveCalls :
        LET b == linesOf(readEnv(envFile.calls[i].before))
        IN  /\ tokenLineIndex(b) > 1
            /\ tokenLineIndex(b) < Len(b)
            /\ b[tokenLineIndex(b)] # TokenLine(envFile.calls[i].arg)

ConfigCalls == {i \in 1..Len(envFile.calls) : envFile.calls[i].op = "setupConfig"}

\* the lines `key=value` of a file whose key is none of the keys setupConfig prompts for
UnpromptedEntries(file) ==
    {linesOf(readEnv(file))[k] : k \in
        {j \in 1..Len(linesOf(readEnv(file))) :
            LET parts == splitKeyValue(linesOf(readEnv(file))[j])
            IN  /\ Len(parts) > 1
                /\ parts[1] \notin {<<"BROWSERBASE_PROJECT_ID">>, <<"BROWSERBASE_API_KEY">>,
                                    <<"GEMINI_API_KEY">>, <<"GOOGLE_GENERATIVE_AI_API_KEY">>}
                /\ parts[1] # <<>>
                /\ parts[1][1] # "#"}}

\* C30: in every sequence of saveTokenToEnv and setupConfig calls, an entry of the
\* env file whose key setupConfig does not prompt for (OP_SERVICE_ACCOUNT_TOKEN
\* among them) is in the file with the same value after setupConfig, and the file
\* is unchanged when the user declines to update an existing configuration.
C30_SetupConfigKeepsOtherKeys ==
    \A i \in ConfigCalls :
        LET call == envFile.calls[i]
        IN  /\ UnpromptedEntries(call.before) \subseteq UnpromptedEntries(call.after)
            /\ call.arg = "declined" => call.after = call.before

-----------------------------------------------------------------------------
(* The automatic login of services/create/index.ts.                             *)

AutofillStatements == {"typeUsername", "typePassword", "submit", "autofillIdle", "autofillInspect"}

\* the calls made inside the try block of the automatic login
AutofillCallsAt == {i \in 1..Len(trace) : trace[i].at \in AutofillStatements}

Attempts == {i \in 1..Len(trace) : trace[i].call = "act:username"}

\* the call that follows call i inside the attempt when call i went through
FollowedBy(i, name) == i < Len(trace) => trace[i + 1].call = name /\ trace[i + 1].at \in AutofillStatements

\* call i ends the attempt without a return: an act or the re-inspection threw,
\* or the re-inspection still reports requiresAuth
AttemptFailedAt(i) ==
    /\ i \in AutofillCallsAt
    /\ \/ trace[i].call \in {"act:username", "act:password", "act:submit"} /\ ~trace[i].ok
       \/ trace[i].call = "inspect" /\ (~trace[i].ok \/ trace[i].requiresAuth)

\* C23: the automatic login starts only with credentials found and canAutofill
\* true in the latest analysis; it is the calls type-username, type-password,
\* submit in this order, then (after the wait for the page to settle) one
\* re-inspection; it starts at most once in a run; a throw inside it or a
\* re-inspection that still reports requiresAuth is followed by the first step of
\* the manual login, never by another act of the automatic login.
C23_AutofillOnce ==
    /\ Cardinality(Attempts) <= 1
    /\ pc \in AutofillStatements \ {"autofillInspect"} => credentials.found /\ analysis.canAutofill
    /\ Attempts # {} => credentials.found /\ impl = "monolith"
    /\ \A i \in AutofillCallsAt :
        /\ trace[i].call = "act:username" /\ trace[i].ok => FollowedBy(i, "act:password")
        /\ trace[i].call = "act:password" =>
               /\ trace[i - 1].call = "act:username" /\ trace[i - 1].ok
               /\ trace[i].ok => FollowedBy(i, "act:submit")
        /\ trace[i].call = "act:submit" =>
               /\ trace[i - 1].call = "act:password" /\ trace[i - 1].ok
               /\ trace[i].ok => FollowedBy(i, "waitForLoadState")
        /\ trace[i].call = "waitForLoadState" =>
               /\ trace[i - 1].call = "act:submit" /\ trace[i - 1].ok
               /\ FollowedBy(i, "inspect")
        /\ trace[i].call = "inspect" =>
               /\ trace[i - 1].call = "waitForLoadState"
               /\ i < Len(trace) => trace[i + 1].at \notin AutofillStatements
        /\ AttemptFailedAt(i) =>
               IF i = Len(trace) THEN pc = "debugUrl" ELSE trace[i + 1].call = "getDebugUrl"

\* a complete attempt whose re-inspection still reports requiresAuth, and the run
\* has reached the wait for the user
C23_Witness ==
    \E i \in AutofillCallsAt :
        /\ trace[i].call = "inspect" /\ trace[i].ok /\ trace[i].requiresAuth
        /\ \E j \in (i + 1)..Len(trace) : trace[j].call = "waitForUserInput"

\* the second act of the attempt threw and the manual login began
C23_WitnessThrow ==
    \E i \in AutofillCallsAt :
        /\ trace[i].call = "act:password" /\ ~trace[i].ok
        /\ i < Len(trace)

-----------------------------------------------------------------------------
(* Calls in flight during authenticateToWebsite.  A call that the function      *)
(* awaits has settled when the next statement runs; a call it does not await    *)
(* can still be in flight during every later call.                              *)

\* the calls against the page: navigation, act, network-idle wait, Inspector
PageCalls ==
    {"goto", "act:login", "act:username", "act:password", "act:submit",
     "waitForLoadState", "inspect"}

\* the awaited calls when the network-idle wait is started and left running
AwaitedCallsNoIdleWait ==
    {"awaitActivePage", "goto", "inspect", "lookup", "act:login",
     "act:username", "act:password", "act:submit", "openDebuggerUrl", "waitForUserInput"}

\* the calls authenticateToWebsite makes with `await`; analyzeAuthenticationState
\* in turn awaits its stagehand.extract
AwaitedCalls ==
    {"awaitActivePage", "goto", "inspect", "lookup", "act:login", "waitForLoadState",
     "act:username", "act:password", "act:submit", "openDebuggerUrl", "waitForUserInput"}

\* the page calls that can be in flight when call i starts
InFlightAtStart(i) ==
    {j \in 1..(i - 1) : trace[j].call \in PageCalls /\ trace[j].call \notin AwaitedCalls}

-----------------------------------------------------------------------------
(* lookupCredentialsIn1Password: which item is returned *)

\* the candidates the claim names: the domain, the bare hostname, the hostname
\* without a leading www., each also with dots replaced by underscores, and the
\* registrable root label
NamedCandidates(domain) ==
    LET host == extractHostname(domain)
        hostWithoutWWW == withoutWWW(host)
        labels == labelsOf(hostWithoutWWW)
        n == Len(labels)
    IN  addCandidate(domain) \cup addCandidate(host) \cup addCandidate(hostWithoutWWW)
        \cup (IF n > 1 THEN addCandidate(labels[n - 1]) ELSE {})

NamedSignatures(domain) == {normalize(c) : c \in NamedCandidates(domain)} \ {<<>>}

\* item k is a Login item with username and password of which a signature contains,
\* or is contained in, the signature of a named candidate
Eligible(k) ==
    /\ lookupIn.items[k].category = "Login"
    /\ credentialOf(lookupIn.items[k].username, lookupIn.fault) # ""
    /\ credentialOf(lookupIn.items[k].password, lookupIn.fault) # ""
    /\ \E candidate \in searchable(lookupIn.items[k]),
          signature \in NamedSignatures(lookupIn.domain) :
           includes(candidate, signature) \/ includes(signature, candidate)

\* C25: with a backend that answers every call, the lookup returns the
\* credentials of the first item of the listing that is a Login item, yields a
\* username and a password, and has a title or website-host signature that
\* contains or is contained in the signature of the domain, of the domain with
\* underscores, of the bare hostname, of the hostname without www. or of the
\* registrable root label; it returns null when the listing has no such item.
C25_ReturnsFirstEligible ==
    pc = "done" /\ lookupIn.fault = "none" =>
        IF \E k \in 1..Len(lookupIn.items) : Eligible(k)
        THEN LET k == Least({j \in 1..Len(lookupIn.items) : Eligible(j)})
             IN  lookupOut = LookupFound(lookupIn.items[k].username.value,
                                         lookupIn.items[k].password.value)
        ELSE lookupOut = LookupNull

\* the title has no letter or digit and the item has no website
EmptySignature(item) == normalize(item.title) = <<>> /\ item.websites = <<>>

\* C29: a Login item whose title has no alphanumeric character and that has no
\* website matches no domain: the lookup never returns its credentials.
C29_NoEmptySignatureMatch ==
    pc = "done" /\ lookupOut.found =>
        \A k \in 1..Len(lookupIn.items) :
            EmptySignature(lookupIn.items[k]) =>
                lookupOut.username # lookupIn.items[k].username.value

-----------------------------------------------------------------------------
(* getStagehandInstance: the module variable stagehandInstance and the calls   *)
(* that are between two of their awaits.  0 stands for null; instance n is the  *)
(* n-th Stagehand object constructed.                                          *)

\* the calls of getStagehandInstance in one process
MaxStagehandCalls == 3

StagehandDomains == {"x.io", "y.io"}

StagehandCall(domain, at, mine, result, initialised) ==
    [domain |-> domain, at |-> at, mine |-> mine, result |-> result,
     initialised |-> initialised]

\* new Stagehand({...}) for a domain; init() has not run
NewInstance(domain) == [domain |-> domain, init |-> "no"]

InitStagehand ==
    /\ InitCoreIdle
    /\ ctx = Idle
    /\ envFile = Idle
    /\ sh = [pc |-> "ready", stagehandInstance |-> 0, instances |-> <<>>, calls |-> <<>>]
    /\ build = Idle

\* stagehandInstance = new Stagehand({...}); the call goes on to await init()
Construct(s, c, domain) ==
    [s EXCEPT !.instances = Append(@, [NewInstance(domain) EXCEPT !.init = "pending"]),
              !.stagehandInstance = Len(s.instances) + 1,
              !.calls[c] = StagehandCall(domain, "init", Len(s.instances) + 1, 0, FALSE)]

\* return stagehandInstance
ReturnInstance(s, c) ==
    [s EXCEPT !.calls[c].at = "returned",
              !.calls[c].result = s.stagehandInstance,
              !.calls[c].initialised = s.instances[s.stagehandInstance].init = "ok"]

\* a call of getStagehandInstance(domain, {persistContext}) up to its first await:
\* the cached instance, a missing key, the context lookup, or the constructor
GetStagehand(domain, persistContext, envOk) ==
    /\ sh.pc = "ready"
    /\ Len(sh.calls) < MaxStagehandCalls
    /\ LET c == Len(sh.calls) + 1
           s == [sh EXCEPT !.calls = Append(@, StagehandCall(domain, "start", 0, 0, FALSE))]
       IN  sh' = IF sh.stagehandInstance # 0 THEN ReturnInstance(s, c)
                 ELSE IF ~envOk THEN [s EXCEPT !.calls[c].at = "threw"]
                 ELSE IF persistContext THEN [s EXCEPT !.calls[c].at = "context"]
                 ELSE Construct(s, c, domain)
    /\ UNCHANGED <<core, ctx, envFile, build>>

\* contextId = await getOrCreateContext(domain) settles
ContextSettled(c, ok) ==
    /\ sh.pc = "ready"
    /\ c \in 1..Len(sh.calls)
    /\ sh.calls[c].at = "context"
    /\ sh' = IF ok THEN Construct(sh, c, sh.calls[c].domain)
             ELSE [sh EXCEPT !.calls[c].at = "threw"]
    /\ UNCHANGED <<core, ctx, envFile, build>>

\* await stagehandInstance.init() settles; then return stagehandInstance
InitSettled(c, ok) ==
    /\ sh.pc = "ready"
    /\ c \in 1..Len(sh.calls)
    /\ sh.calls[c].at = "init"
    /\ sh' = IF ok
             THEN ReturnInstance([sh EXCEPT !.instances[sh.calls[c].mine].init = "ok"], c)
             ELSE [sh EXCEPT !.instances[sh.calls[c].mine].init = "failed",
                             !.calls[c].at = "threw"]
    /\ UNCHANGED <<core, ctx, envFile, build>>

NextStagehand ==
    \/ \E domain \in StagehandDomains, persistContext \in BOOLEAN, envOk \in BOOLEAN :
           GetStagehand(domain, persistContext, envOk)
    \/ \E c \in 1..MaxStagehandCalls, ok \in BOOLEAN : ContextSettled(c, ok)
    \/ \E c \in 1..MaxStagehandCalls, ok \in BOOLEAN : InitSettled(c, ok)

SpecStagehand == InitStagehand /\ [][NextStagehand]_vars

ReturnedCalls == {c \in 1..Len(sh.calls) : sh.calls[c].at = "returned"}

\* C26: one process constructs at most one Stagehand instance, every call that
\* returns returns that instance, whatever its domain argument, and the instance
\* a call returns has completed init() successfully, also when the call was made
\* during the first call's context lookup or init() or after that init() failed.
C26_OneInitialisedInstance ==
    /\ Len(sh.instances) <= 1
    /\ \A c \in ReturnedCalls : sh.calls[c].result = 1 /\ sh.calls[c].initialised

-----------------------------------------------------------------------------
(* The build verification of createMCPServer and fixBuildErrors.               *)

\* const maxRetries = 2
maxRetries == 2

FenceTypescript ==
    <<Backtick, Backtick, Backtick, "t", "y", "p", "e", "s", "c", "r", "i", "p", "t", "\n">>

FenceEnd ==
    <<"\n", Backtick, Backtick, Backtick>>

Shebang ==
    <<"#", "!", "/", "u", "s", "r", "/", "b", "i", "n", "/", "e", "n", "v", " ", "n",
      "o", "d", "e">>

\* the positions at which sub occurs in s
PositionsOf(s, sub) ==
    {i \in 1..(Len(s) - Len(sub) + 1) : SubSeq(s, i, i + Len(sub) - 1) = sub}

\* text.match(/```typescript\n([\s\S]*?)\n```/): the shortest text between the
\* first opening fence and a closing fence after it
codeBlockMatch(text) ==
    LET opens == PositionsOf(text, FenceTypescript)
        from == Least(opens) + Len(FenceTypescript)
        ends == {j \in PositionsOf(text, FenceEnd) : j >= from}
    IN  IF opens # {} /\ ends # {}
        THEN [found |-> TRUE, text |-> SubSeq(text, from, Least(ends) - 1)]
        ELSE [found |-> FALSE, text |-> <<>>]

\* text.match(/(#!\/usr\/bin\/env node[\s\S]*)/): from the first shebang to the end
shebangMatch(text) ==
    IF PositionsOf(text, Shebang) # {}
    THEN [found |-> TRUE, text |-> SubSeq(text, Least(PositionsOf(text, Shebang)), Len(text))]
    ELSE [found |-> FALSE, text |-> <<>>]

\* the code generateMCPServerCode returned and wrote to src/index.ts
CodeGenerated ==
    <<"l", "e", "t", " ", "a", ":", " ", "n", "u", "m", "b", "e", "r", " ", "=", " ",
      "'", "x", "'", ";">>

\* replies of the model to the fix prompt
ReplyFenced ==
    <<"H", "e", "r", "e", " ", "i", "s", " ", "t", "h", "e", " ", "f", "i", "x", ":",
      "\n", Backtick, Backtick, Backtick, "t", "y", "p", "e", "s", "c", "r", "i", "p",
      "t", "\n", "l", "e", "t", " ", "a", " ", "=", " ", "1", ";", "\n", Backtick,
      Backtick, Backtick, "\n", "D", "o", "n", "e", ".">>

ReplyShebang ==
    <<"F", "i", "x", "e", "d", " ", "c", "o", "d", "e", ":", "\n", "#", "!", "/", "u",
      "s", "r", "/", "b", "i", "n", "/", "e", "n", "v", " ", "n", "o", "d", "e", "\n",
      "l", "e", "t", " ", "a", " ", "=", " ", "2", ";">>

ReplyPlain ==
    <<"l", "e", "t", " ", "a", " ", "=", " ", "3", ";">>

ReplyOtherFence ==
    <<Backtick, Backtick, Backtick, "t", "s", "\n", "l", "e", "t", " ", "a", " ", "=",
      " ", "4", ";", "\n", Backtick, Backtick, Backtick>>

ReplyTwoBlocks ==
    <<Backtick, Backtick, Backtick, "t", "y", "p", "e", "s", "c", "r", "i", "p", "t",
      "\n", "l", "e", "t", " ", "a", " ", "=", " ", "5", ";", "\n", Backtick, Backtick,
      Backtick, "\n", "a", "n", "d", "\n", Backtick, Backtick, Backtick, "t", "y", "p",
      "e", "s", "c", "r", "i", "p", "t", "\n", "l", "e", "t", " ", "a", " ", "=", " ",
      "6", ";", "\n", Backtick, Backtick, Backtick>>

Replies == {ReplyFenced, ReplyShebang, ReplyPlain, ReplyOtherFence, ReplyTwoBlocks}

\* what can fail in fixBuildErrors: nothing, the call of the model, the write of the file
FixFaults == {"none", "model", "write"}

FixResult(threw, code, file) == [threw |-> threw, code |-> code, file |-> file]

\* fixBuildErrors on the reply `text`, with src/index.ts holding `file`: what it
\* returns or that it threw, and src/index.ts afterwards
fixBuildErrors(text, fault, file) ==
    IF fault = "model" THEN FixResult(TRUE, <<>>, file)
    ELSE IF codeBlockMatch(text).found THEN FixResult(FALSE, codeBlockMatch(text).text, file)
    ELSE IF shebangMatch(text).found THEN FixResult(FALSE, shebangMatch(text).text, file)
    ELSE IF fault = "write" THEN FixResult(TRUE, <<>>, file)
    ELSE FixResult(FALSE, text, text)

\* if (attempt > maxRetries) throw error, with the loop of four attempts
GiveUpNever(attempt) == FALSE

\* if (attempt > maxRetries) throw error
GiveUp(attempt) == attempt > maxRetries

\* the statement after the catch block: the next attempt while
\* attempt <= maxRetries + 1, else `if (!buildSuccessful) throw new Error(...)`
AfterFix(attempt) == IF attempt + 1 <= maxRetries + 1 THEN "build" ELSE "exhausted"

BuildEvent(ok, compiled) == [ev |-> "build", ok |-> ok, threw |-> ~ok, code |-> compiled]

FixEvent(r) == [ev |-> "fix", ok |-> ~r.threw, threw |-> r.threw, code |-> r.code]

InitBuild ==
    /\ InitCoreIdle
    /\ ctx = Idle
    /\ envFile = Idle
    /\ sh = Idle
    /\ build = [pc |-> "build", attempt |-> 1, serverCode |-> CodeGenerated,
                file |-> CodeGenerated, buildSuccessful |-> FALSE,
                outcome |-> "running", events |-> <<>>]

\* await execAsync("npm run build", { cwd: outputDir }) and what follows it in the
\* try block or at the start of the catch block
RunBuild(ok) ==
    /\ build.pc = "build"
    /\ build' = [build EXCEPT
           !.events = Append(@, BuildEvent(ok, build.file)),
           !.buildSuccessful = ok,
           !.pc = IF ok THEN "done" ELSE IF GiveUp(build.attempt) THEN "done" ELSE "fix",
           !.outcome = IF ok THEN "returned"
                       ELSE IF GiveUp(build.attempt) THEN "threwBuildError" ELSE "running"]
    /\ UNCHANGED <<core, ctx, envFile, sh>>

\* try { fixedCode = await fixBuildErrors(...); serverCode = fixedCode } catch { log },
\* then attempt++
FixBuildErrors(text, fault) ==
    /\ build.pc = "fix"
    /\ LET r == fixBuildErrors(text, fault, build.file)
       IN  build' = [build EXCEPT
               !.events = Append(@, FixEvent(r)),
               !.serverCode = IF r.threw THEN @ ELSE r.code,
               !.file = r.file,
               !.attempt = @ + 1,
               !.pc = IF AfterFix(build.attempt) = "build" THEN "build" ELSE "done",
               !.outcome = IF AfterFix(build.attempt) = "build" THEN "running"
                           ELSE "threwAfterLoop"]
    /\ UNCHANGED <<core, ctx, envFile, sh>>

NextBuild ==
    \/ \E ok \in BOOLEAN : RunBuild(ok)
    \/ \E text \in Replies, fault \in FixFaults : FixBuildErrors(text, fault)

SpecBuild == InitBuild /\ [][NextBuild]_vars

\* every build and every call of the model settles
SpecBuildFair == SpecBuild /\ WF_vars(NextBuild)

Builds == {i \in 1..Len(build.events) : build.events[i].ev = "build"}

Fixes == {i \in 1..Len(build.events) : build.events[i].ev = "fix"}

BuildLoopBounded ==
    /\ Cardinality(Builds) <= maxRetries + 1
    /\ Cardinality(Fixes) <= maxRetries
    /\ build.outcome = "returned" => \E i \in Builds : build.events[i].ok
    /\ \A i \in Builds : build.events[i].ok => i = Len(build.events) /\ build.pc = "done"
    /\ Cardinality({i \in Builds : ~build.events[i].ok}) = maxRetries + 1
           => build.outcome = "threwBuildError"
    /\ \A i \in Fixes :
           build.events[i].threw =>
               IF i = Len(build.events) THEN build.pc = "build" /\ build.outcome = "running"
               ELSE build.events[i + 1].ev = "build"

\* C27: the build loop ends, after at most maxRetries + 1 builds and at most
\* maxRetries calls of fixBuildErrors; the run returns normally only after a
\* successful build, nothing is built or fixed after a successful build, the
\* third failed build throws the build error, and a throw of fixBuildErrors is
\* followed by the next build.
C27_BuildLoopTerminates == []BuildLoopBounded /\ <>(build.pc = "done")

\* three builds failed, the first fixBuildErrors threw, and the build error was thrown
C27_Witness ==
    /\ build.outcome = "threwBuildError"
    /\ Cardinality(Builds) = maxRetries + 1
    /\ \E i \in Fixes : build.events[i].threw

\* the second build succeeded after a fix and the run returned
C27_WitnessFixed ==
    /\ build.outcome = "returned"
    /\ Cardinality(Builds) = 2
    /\ Cardinality(Fixes) = 1

\* C28: after a failed build for which fixBuildErrors returned code, the next
\* build compiles that code: src/index.ts holds exactly the returned code when
\* the rebuild starts, for a reply with a typescript fence, a reply with a
\* shebang line and a plain reply.
C28_RebuildCompilesFix ==
    \A i \in Fixes :
        ~build.events[i].threw /\ i < Len(build.events)
            => build.events[i + 1].code = build.events[i].code
====
